---- MODULE Spec2Model ----
(***************************************************************************)
(* Grid layout and slide animation of generate_cabinet_grid.py:             *)
(* calculate_grid_layout computes the scaled cell size and the pixel        *)
(* position of every cell of a rows x cols grid from the module globals;    *)
(* create_grid_segment turns one or two such layouts into the overlay       *)
(* filters handed to ffmpeg, animated by a smoothstep expression in t.      *)
(***************************************************************************)
EXTENDS Integers, Sequences, FiniteSets, TLC

(***************************************************************************)
(* Python floats are IEEE-754 binary64.  A float is modelled bit-exactly    *)
(* as [s, m, e] with value s * m * 2^e: s is 1 or -1, m is a 53-bit        *)
(* natural (or zero) held as a little-endian sequence of 14-bit limbs, and  *)
(* every operation rounds its exact result to nearest, ties to even.        *)
(* Exponents stay far inside the normal range for the pixel quantities of   *)
(* this program, so subnormals, infinities and NaN are not represented.     *)
(***************************************************************************)
LimbBits == 14

Pow2Table == <<1, 2, 4, 8, 16, 32, 64, 128, 256, 512, 1024, 2048, 4096, 8192, 16384>>

\* 2^k for 0 <= k <= LimbBits
Pow2(k) == Pow2Table[k + 1]

Base == Pow2(LimbBits)

Limb(a, i) == IF i >= 1 /\ i <= Len(a) THEN a[i] ELSE 0

RECURSIVE Norm(_)
Norm(a) ==
    IF a = <<>> THEN a
    ELSE IF a[Len(a)] = 0 THEN Norm(SubSeq(a, 1, Len(a) - 1)) ELSE a

RECURSIVE FromNat(_)
FromNat(n) == IF n = 0 THEN <<>> ELSE <<n % Base>> \o FromNat(n \div Base)

RECURSIVE ToNat(_)
ToNat(a) == IF a = <<>> THEN 0 ELSE a[1] + Base * ToNat(Tail(a))

RECURSIVE SmallBitLen(_)
SmallBitLen(n) == IF n = 0 THEN 0 ELSE 1 + SmallBitLen(n \div 2)

BitLen(a) == IF a = <<>> THEN 0 ELSE (Len(a) - 1) * LimbBits + SmallBitLen(a[Len(a)])

Bit(a, i) == (Limb(a, (i \div LimbBits) + 1) \div Pow2(i % LimbBits)) % 2

\* TRUE iff the k lowest bits of a are all zero
LowZero(a, k) ==
    /\ \A j \in 1..(k \div LimbBits) : Limb(a, j) = 0
    /\ Limb(a, (k \div LimbBits) + 1) % Pow2(k % LimbBits) = 0

RECURSIVE CmpAt(_, _, _)
CmpAt(a, b, i) ==
    IF i = 0 THEN 0
    ELSE IF Limb(a, i) > Limb(b, i) THEN 1
    ELSE IF Limb(a, i) < Limb(b, i) THEN -1
    ELSE CmpAt(a, b, i - 1)

\* -1, 0, 1 as a < b, a = b, a > b
Cmp(a, b) == CmpAt(a, b, IF Len(a) > Len(b) THEN Len(a) ELSE Len(b))

RECURSIVE AddFrom(_, _, _, _)
AddFrom(a, b, i, c) ==
    IF i > Len(a) /\ i > Len(b)
    THEN (IF c = 0 THEN <<>> ELSE <<c>>)
    ELSE LET s == Limb(a, i) + Limb(b, i) + c
         IN  <<s % Base>> \o AddFrom(a, b, i + 1, s \div Base)

BigAdd(a, b) == AddFrom(a, b, 1, 0)

RECURSIVE SubFrom(_, _, _, _)
SubFrom(a, b, i, c) ==
    IF i > Len(a) THEN <<>>
    ELSE LET d == Limb(a, i) - Limb(b, i) - c
         IN  IF d < 0 THEN <<d + Base>> \o SubFrom(a, b, i + 1, 1)
             ELSE <<d>> \o SubFrom(a, b, i + 1, 0)

\* a - b for a >= b
BigSub(a, b) == Norm(SubFrom(a, b, 1, 0))

Shl(a, k) ==
    LET q == k \div LimbBits
        r == k % LimbBits
    IN  Norm([i \in 1..(Len(a) + q + 1) |->
                ((Limb(a, i - q) * Pow2(r)) % Base)
                + ((Limb(a, i - q - 1) * Pow2(r)) \div Base)])

Shr(a, k) ==
    LET q == k \div LimbBits
        r == k % LimbBits
        n == IF Len(a) > q THEN Len(a) - q ELSE 0
    IN  Norm([i \in 1..n |->
                (Limb(a, i + q) \div Pow2(r))
                + ((Limb(a, i + q + 1) % Pow2(r)) * Pow2(LimbBits - r))])

RECURSIVE ColSum(_, _, _, _)
ColSum(a, b, k, i) ==
    IF i > Len(a) THEN 0 ELSE Limb(a, i) * Limb(b, k + 1 - i) + ColSum(a, b, k, i + 1)

RECURSIVE MulFrom(_, _, _, _)
MulFrom(a, b, k, c) ==
    IF k > Len(a) + Len(b) THEN <<>>
    ELSE LET s == ColSum(a, b, k, 1) + c
         IN  <<s % Base>> \o MulFrom(a, b, k + 1, s \div Base)

\* schoolbook product; the operands are mantissas (at most 4 limbs each)
BigMul(a, b) == Norm(MulFrom(a, b, 1, 0))

\* 2 * r + bit
Dbl(r, bit) ==
    Norm([i \in 1..(Len(r) + 1) |->
            ((Limb(r, i) * 2) % Base) + (Limb(r, i - 1) \div (Base \div 2))
            + (IF i = 1 THEN bit ELSE 0)])

RECURSIVE DivBits(_, _, _, _)
DivBits(b, n, ql, r) ==
    IF n = 0 THEN [ql |-> ql, r |-> r]
    ELSE LET r2 == Dbl(r, 0)
         IN  IF Cmp(r2, b) >= 0
             THEN DivBits(b, n - 1, 2 * ql + 1, BigSub(r2, b))
             ELSE DivBits(b, n - 1, 2 * ql, r2)

RECURSIVE DivLimbs(_, _, _, _)
DivLimbs(b, j, q, r) ==
    IF j = 0 THEN [q |-> Norm(q), r |-> r]
    ELSE LET s == DivBits(b, LimbBits, 0, r)
         IN  DivLimbs(b, j - 1, <<s.ql>> \o q, s.r)

\* quotient and remainder of a * 2^(LimbBits*k) by b, for a < 2*b: binary long
\* division, one limb of quotient at a time
LongDiv(a, b, k) ==
    IF Cmp(a, b) >= 0 THEN DivLimbs(b, k, <<1>>, BigSub(a, b))
    ELSE DivLimbs(b, k, <<>>, a)

RECURSIVE ShortFrom(_, _, _, _, _)
ShortFrom(a, d, j, q, r) ==
    IF j = 0 THEN [q |-> Norm(q), r |-> (IF r = 0 THEN <<>> ELSE <<r>>)]
    ELSE LET cur == r * Base + Limb(a, j)
         IN  ShortFrom(a, d, j - 1, <<cur \div d>> \o q, cur % d)

\* quotient and remainder of a by a one-limb divisor d > 0
ShortDiv(a, d) == ShortFrom(a, d, Len(a), <<>>, 0)

RECURSIVE SmallTrailingZeros(_)
SmallTrailingZeros(n) == IF n % 2 = 1 THEN 0 ELSE 1 + SmallTrailingZeros(n \div 2)

RECURSIVE ZeroLimbs(_, _)
ZeroLimbs(a, i) == IF a[i] # 0 THEN 0 ELSE 1 + ZeroLimbs(a, i + 1)

\* number of trailing zero bits of a # 0
TrailingZeros(a) ==
    LET z == ZeroLimbs(a, 1) IN z * LimbBits + SmallTrailingZeros(a[z + 1])

FZero == [s |-> 1, m |-> <<>>, e |-> 0]

\* the float nearest to s * (n + f) * 2^e, where 0 <= f < 1 and sticky says f > 0
FRound(s, n, e, sticky) ==
    LET L == BitLen(n)
    IN  IF n = <<>> THEN FZero
        ELSE IF L <= 53 THEN [s |-> s, m |-> Shl(n, 53 - L), e |-> e - (53 - L)]
        ELSE LET sh == L - 53
                 q  == Shr(n, sh)
                 up == /\ Bit(n, sh - 1) = 1
                       /\ (sticky \/ ~LowZero(n, sh - 1) \/ Bit(q, 0) = 1)
                 m1 == IF up THEN BigAdd(q, <<1>>) ELSE q
             IN  IF BitLen(m1) > 53
                 THEN [s |-> s, m |-> Shr(m1, 1), e |-> e + sh + 1]
                 ELSE [s |-> s, m |-> m1, e |-> e + sh]

\* float(n) for an int n (exact below 2^53)
FInt(n) == FRound(IF n < 0 THEN -1 ELSE 1, FromNat(IF n < 0 THEN -n ELSE n), 0, FALSE)

FNeg(x) == IF x.m = <<>> THEN x ELSE [x EXCEPT !.s = -x.s]

FMul(x, y) ==
    IF x.m = <<>> \/ y.m = <<>> THEN FZero
    ELSE FRound(x.s * y.s, BigMul(x.m, y.m), x.e + y.e, FALSE)

\* x / y for y # 0.  The quotient of the mantissas is computed to 56 bits or
\* more with its remainder as the sticky bit: by one-limb short division when
\* the odd part of y's mantissa fits a limb (y an int such as rows, cols, 2),
\* by binary long division otherwise.
FDiv(x, y) ==
    IF x.m = <<>> THEN FZero
    ELSE LET tz == TrailingZeros(y.m)
             d  == Shr(y.m, tz)
             dm == IF Len(d) = 1
                   THEN ShortDiv(Shl(x.m, 5 * LimbBits), d[1])
                   ELSE LongDiv(x.m, y.m, 4)
             ex == IF Len(d) = 1
                   THEN x.e - (y.e + tz) - 5 * LimbBits
                   ELSE x.e - y.e - 4 * LimbBits
         IN  FRound(x.s * y.s, dm.q, ex, dm.r # <<>>)

FAdd(x, y) ==
    IF x.m = <<>> THEN y
    ELSE IF y.m = <<>> THEN x
    ELSE LET e0 == IF x.e < y.e THEN x.e ELSE y.e
             mx == Shl(x.m, x.e - e0)
             my == Shl(y.m, y.e - e0)
             c  == Cmp(mx, my)
         IN  IF x.s = y.s THEN FRound(x.s, BigAdd(mx, my), e0, FALSE)
             ELSE IF c = 0 THEN FZero
             ELSE IF c > 0 THEN FRound(x.s, BigSub(mx, my), e0, FALSE)
             ELSE FRound(y.s, BigSub(my, mx), e0, FALSE)

FSub(x, y) == FAdd(x, FNeg(y))

\* x < y
FLt(x, y) ==
    LET d == FSub(x, y) IN d.m # <<>> /\ d.s = -1

\* Python's min(x, y): y only if y < x
FMin(x, y) == IF FLt(y, x) THEN y ELSE x

\* int(x): truncation toward zero
FTrunc(x) ==
    IF x.m = <<>> THEN 0
    ELSE x.s * ToNat(IF x.e >= 0 THEN Shl(x.m, x.e) ELSE Shr(x.m, -x.e))

\* the float literal 0.95 (line 516): 0x1.e666666666666p-1
F095 == [s |-> 1, m |-> <<9830, 6553, 9830, 1945>>, e |-> -53]

(***************************************************************************)
(* Bounds of the model                                                      *)
(***************************************************************************)
\* rows and cols of the small grids range over 1..MaxGrid
MaxGrid == 3
\* a grid dimension whose minimal-mode gaps, 10 * (TallGrid + 1), exceed the
\* 1080 pixel canvas height
TallGrid == 122

GridDims == 1..MaxGrid
\* SLIDE_DURATION, when bound, is -MaxSlide, 0 or MaxSlide seconds
MaxSlide == 1
\* ffmpeg is followed up to frame MaxFrame, every FrameStride-th frame
MaxFrame == 40
FrameStride == 10

SlideDurations == {-MaxSlide, 0, MaxSlide}

\* the shapes calculate_grid_layout is called with: the small grids, the tall
\* one, whose minimal-mode offset_y is a negative whole number on the 1080
\* pixel canvas, and the next taller one, where it is a negative half pixel
Shapes == (GridDims \X GridDims) \cup {<<TallGrid, 1>>, <<TallGrid + 1, 1>>}

(***************************************************************************)
(* Module globals (lines 16-38)                                             *)
(***************************************************************************)
VARIABLES
    OUTPUT_WIDTH, OUTPUT_HEIGHT,   \* canvas size in pixels
    USE_CABINET,                   \* cabinet PNG overlay in use
    SPACING_MODE,                  \* "even", "minimal" or "none"
    CABINET_PNG_WIDTH, CABINET_PNG_HEIGHT,
    SLIDE_DURATION,                \* read at line 627, assigned nowhere in the module
    MAX_GRID_SIZE,                 \* size of the largest grid
    pc,                            \* position of the caller: main() or ffmpeg rendering
    layout,                        \* frame of the last calculate_grid_layout call
    segment,                       \* frame of the create_grid_segment call in progress
    frame,                         \* number of the frame ffmpeg is compositing
    main,                          \* frame of main from line 719 on
    growing,                       \* generate_growing_grid.py: generate_grid_sequence
    screensaver,                   \* generate_grid_screensaver.py: clips to grid video
    screensaver_v2,                \* generate_grid_screensaver_v2.py: clips to grid video
    static_grid,                   \* generate_static_grid.py: generate_grid
    extraction                     \* frame of an extract_clips call

vars == <<OUTPUT_WIDTH, OUTPUT_HEIGHT, USE_CABINET, SPACING_MODE,
          CABINET_PNG_WIDTH, CABINET_PNG_HEIGHT, SLIDE_DURATION, MAX_GRID_SIZE,
          pc, layout, segment, frame, main,
          growing, screensaver, screensaver_v2, static_grid, extraction>>

\* the state of the other scripts of the repository, each a program of its own
scripts == <<growing, screensaver, screensaver_v2, static_grid, extraction>>

globals == <<OUTPUT_WIDTH, OUTPUT_HEIGHT, USE_CABINET, SPACING_MODE,
             CABINET_PNG_WIDTH, CABINET_PNG_HEIGHT, SLIDE_DURATION, MAX_GRID_SIZE>>

\* no call has returned
None == [status |-> "none"]

\* gap_size of the "minimal" spacing mode
gap_size == 10

SpacingModes == {"even", "minimal", "none"}

\* the two resolutions get_user_config offers
Resolutions == {<<1920, 1080>>, <<3840, 2160>>}

\* pixel sizes get_image_dimensions reports for the cabinet PNG
PngSizes == {<<420, 315>>}

\* the shapes create_grid_segment is called with, as new and as previous grid
SegShapes == {<<1, 1>>, <<2, 2>>}

\* the shapes of the layout call that runs beside get_user_config
RaceShapes == {<<1, 1>>, <<2, 2>>, <<1, 3>>}

\* the grid size get_user_config sets when the prompt is left empty (line 102)
DefaultGridSize == 5

\* the grid sizes get_user_config accepts at its prompt (lines 100-111)
GridSizes == GridDims \cup {DefaultGridSize}

\* shapes with rows < 1 or cols < 1 that a caller can pass to
\* calculate_grid_layout, which takes any two ints
InvalidShapes == {<<0, 1>>, <<1, 0>>, <<-1, 1>>, <<-2, -1>>, <<-2, 2>>}

(***************************************************************************)
(* calculate_grid_layout (lines 468-549)                                    *)
(***************************************************************************)
\* base aspect of one cell (lines 475-480)
video_width == IF USE_CABINET THEN CABINET_PNG_WIDTH ELSE 1920
video_height == IF USE_CABINET THEN CABINET_PNG_HEIGHT ELSE 1080

\* canvas pixels left for the cells along one axis (lines 485, 498-501, 512)
Available(out, dim) ==
    IF SPACING_MODE = "minimal" THEN out - gap_size * (dim + 1) ELSE out

\* scale_factor_w, scale_factor_h: (available / dim) / video size
AxisScale(avail, dim, video) == FDiv(FDiv(FInt(avail), FInt(dim)), FInt(video))

\* max(x, y) in place of min(x, y)
FMax(x, y) == IF FLt(x, y) THEN y ELSE x

\* a scale factor that fills the looser axis, not the tighter one
ScaleFactorLoose(sw, sh) ==
    IF SPACING_MODE = "even" THEN FMul(FMax(sw, sh), F095) ELSE FMax(sw, sh)

\* scale_factor (lines 489, 504, 516)
ScaleFactor(sw, sh) ==
    IF SPACING_MODE = "even" THEN FMul(FMin(sw, sh), F095) ELSE FMin(sw, sh)

\* int(video_width * scale_factor)
ScaledSize(video, scale) == FTrunc(FMul(FInt(video), scale))

\* gaps that share the free space among dim gaps, not dim + 1
GapPerCell(out, size, dim) ==
    IF SPACING_MODE = "none" THEN FZero
    ELSE IF SPACING_MODE = "minimal" THEN FInt(gap_size)
    ELSE FDiv(FInt(out - size * dim), FInt(dim))

\* h_gap, v_gap (lines 492, 507, 529)
Gap(out, size, dim) ==
    IF SPACING_MODE = "none" THEN FZero
    ELSE IF SPACING_MODE = "minimal" THEN FInt(gap_size)
    ELSE FDiv(FInt(out - size * dim), FInt(dim + 1))

\* a grid size that counts the gaps at both edges too
TotalGridWithEdges(size, dim, gap) == FAdd(FInt(size * dim), FMul(gap, FInt(dim + 1)))

\* total_grid_width, total_grid_height (lines 533-534)
TotalGrid(size, dim, gap) == FAdd(FInt(size * dim), FMul(gap, FInt(dim - 1)))

\* an offset that leaves the whole free space before the grid
FlushOffset(out, total) == FSub(FInt(out), total)

\* offset_x, offset_y (lines 537-538)
CenterOffset(out, total) == FDiv(FSub(FInt(out), total), FInt(2))

PitchLessGap(size, gap) == FSub(FInt(size), gap)

\* scaled_video_width + h_gap, scaled_video_height + v_gap (lines 545-546)
Pitch(size, gap) == FAdd(FInt(size), gap)

\* int(offset + k * (size + gap)) (lines 545-546)
CellCoord(offset, k, pitch) == FTrunc(FAdd(offset, FMul(FInt(k), pitch)))

\* the coordinates of columns (or rows) lo..hi, as a sequence
RECURSIVE Coords(_, _, _, _)
Coords(offset, pitch, lo, hi) ==
    IF lo > hi THEN <<>>
    ELSE IF lo = hi THEN <<CellCoord(offset, lo, pitch)>>
    ELSE Coords(offset, pitch, lo, (lo + hi) \div 2)
         \o Coords(offset, pitch, (lo + hi) \div 2 + 1, hi)

\* a // b and a % b of Python ints, b # 0: the quotient is rounded down and
\* the remainder has the sign of the divisor (lines 543-544)
FloorDiv(a, b) == IF b > 0 THEN a \div b ELSE (-a) \div (-b)
Mod(a, b) == a - b * FloorDiv(a, b)

\* the least and the greatest column i % cols over the cells i of a grid:
\* 0..cols-1, and cols+1..0 when cols is negative
FirstCol(cols) == IF cols > 0 THEN 0 ELSE cols + 1
LastCol(cols) == IF cols > 0 THEN cols - 1 ELSE 0

\* the least and the greatest row i // cols over the cells 0..rows*cols-1
FirstRow(rows, cols) == IF cols > 0 THEN 0 ELSE FloorDiv(rows * cols - 1, cols)
LastRow(rows, cols) == IF cols > 0 THEN FloorDiv(rows * cols - 1, cols) ELSE 0

\* The frame of calculate_grid_layout at its return (line 549); the returned
\* triple is (scaled_video_width, scaled_video_height, positions).  xs and ys
\* hold the coordinates of the columns from FirstCol and of the rows from
\* FirstRow on.
LayoutFrame(rows, cols, w, h, hg, vg, tw, th, ox, oy, xs, ys) ==
    [status |-> "ok", rows |-> rows, cols |-> cols,
     scaled_video_width |-> w, scaled_video_height |-> h,
     h_gap |-> hg, v_gap |-> vg,
     total_grid_width |-> tw, total_grid_height |-> th,
     offset_x |-> ox, offset_y |-> oy,
     positions |-> [i \in 0..(rows * cols - 1) |->
                      <<xs[Mod(i, cols) - FirstCol(cols) + 1],
                        ys[FloorDiv(i, cols) - FirstRow(rows, cols) + 1]>>]]

\* lines 537-547: the centering offsets, then the positions in row-major order
CenteredLayout(rows, cols, w, h, hg, vg, tw, th, ox, oy) ==
    LayoutFrame(rows, cols, w, h, hg, vg, tw, th, ox, oy,
                Coords(ox, Pitch(w, hg), FirstCol(cols), LastCol(cols)),
                Coords(oy, Pitch(h, vg), FirstRow(rows, cols), LastRow(rows, cols)))

\* lines 533-538: the size of the whole grid, then its offsets
GappedLayout(rows, cols, w, h, hg, vg, tw, th) ==
    CenteredLayout(rows, cols, w, h, hg, vg, tw, th,
                   CenterOffset(OUTPUT_WIDTH, tw), CenterOffset(OUTPUT_HEIGHT, th))

\* lines 492-534: the gaps of the spacing mode, then the size of the whole grid
SizedLayout(rows, cols, w, h, hg, vg) ==
    GappedLayout(rows, cols, w, h, hg, vg,
                 TotalGrid(w, cols, hg), TotalGrid(h, rows, vg))

\* lines 490-491, 505-506, 517-518: the scaled cell size, then the gaps
ScaledLayout(rows, cols, sf) ==
    SizedLayout(rows, cols,
                ScaledSize(video_width, sf), ScaledSize(video_height, sf),
                Gap(OUTPUT_WIDTH, ScaledSize(video_width, sf), cols),
                Gap(OUTPUT_HEIGHT, ScaledSize(video_height, sf), rows))

\* The function has no check of rows and cols.  Every spacing mode divides by
\* cols and by rows (lines 485-486, 502-503, 512-513) and "even" divides by
\* cols + 1 and rows + 1 (lines 529-530): a zero divisor raises
\* ZeroDivisionError, any other shape runs to the return.
DividesByZero(rows, cols) ==
    \/ rows = 0 \/ cols = 0
    \/ SPACING_MODE = "even" /\ (rows = -1 \/ cols = -1)

calculate_grid_layout(rows, cols) ==
    IF DividesByZero(rows, cols)
    THEN [status |-> "ZeroDivisionError", rows |-> rows, cols |-> cols]
    ELSE ScaledLayout(rows, cols,
                 ScaleFactor(AxisScale(Available(OUTPUT_WIDTH, cols), cols, video_width),
                             AxisScale(Available(OUTPUT_HEIGHT, rows), rows, video_height)))

\* calculate_grid_layout in the steps between which another thread can run.
\* The frame of a running call holds its locals; alone is not a local: it
\* records what the call would return if it ran to its end in the state it
\* was started in.
\* Lines 475-480: the base size, read from USE_CABINET and CABINET_PNG_*.
AspectRead(rows, cols) ==
    [status |-> "running", at |-> "aspect", rows |-> rows, cols |-> cols,
     video_width |-> video_width, video_height |-> video_height,
     alone |-> calculate_grid_layout(rows, cols)]

\* lines 490-530 on the locals of frame f: the scaled size, then the gaps
GapsComputed(f, w, h) ==
    [status |-> "running", at |-> "gaps", rows |-> f.rows, cols |-> f.cols,
     scaled_video_width |-> w, scaled_video_height |-> h,
     h_gap |-> Gap(OUTPUT_WIDTH, w, f.cols), v_gap |-> Gap(OUTPUT_HEIGHT, h, f.rows),
     alone |-> f.alone]

\* lines 483-530: SPACING_MODE, OUTPUT_WIDTH and OUTPUT_HEIGHT as they are now
SizeScaled(f, sf) ==
    GapsComputed(f, ScaledSize(f.video_width, sf), ScaledSize(f.video_height, sf))

SpacingApplied(f) ==
    SizeScaled(f, ScaleFactor(
        AxisScale(Available(OUTPUT_WIDTH, f.cols), f.cols, f.video_width),
        AxisScale(Available(OUTPUT_HEIGHT, f.rows), f.rows, f.video_height)))

\* lines 533-549: the grid size, the offsets from OUTPUT_WIDTH and
\* OUTPUT_HEIGHT as they are now, the positions and the return
GridPlaced(f) ==
    SizedLayout(f.rows, f.cols, f.scaled_video_width, f.scaled_video_height,
                f.h_gap, f.v_gap)
    @@ [alone |-> f.alone]

(***************************************************************************)
(* The overlay expressions of create_grid_segment (lines 625-633) and their *)
(* value under ffmpeg's expression evaluator.  An expression is a tree      *)
(* [op, a, b, c]; t is the timestamp of the frame in seconds, frame /       *)
(* TARGET_FPS, and values are exact rationals [n, d] in lowest terms.       *)
(***************************************************************************)
TARGET_FPS == 30

\* SLIDE_DURATION is <<>> while the name is not bound in the module's globals
\* and <<d>> once a caller has bound it to d
Unbound == <<>>

Num(v) == [op |-> "num", v |-> v]
T == [op |-> "t"]
Bin(op, a, b) == [op |-> op, a |-> a, b |-> b]
IfExpr(c, a, b) == [op |-> "if", c |-> c, a |-> a, b |-> b]

\* t_norm = 't/{SLIDE_DURATION}' (line 627)
t_norm(D) == Bin("/", T, Num(D))

\* an easing without the cubic term: t_norm itself
LinearStep(D) == t_norm(D)

\* smoothstep = '(3*pow(t_norm,2) - 2*pow(t_norm,3))' (line 628)
smoothstep(D) ==
    Bin("-", Bin("*", Num(3), Bin("pow", t_norm(D), Num(2))),
             Bin("*", Num(2), Bin("pow", t_norm(D), Num(3))))

\* the interpolation without the guard lt(t,D)
UnguardedExpr(start, end, D) ==
    Bin("+", Num(start), Bin("*", Bin("-", Num(end), Num(start)), smoothstep(D)))

\* a slide that falls back to start once t reaches D
ResetExpr(start, end, D) ==
    IfExpr(Bin("lt", T, Num(D)), UnguardedExpr(start, end, D), Num(start))

\* a slide whose easing dips below 0: 3*pow(t_norm,2) - 2*t_norm
DippingExpr(start, end, D) ==
    IfExpr(Bin("lt", T, Num(D)),
           Bin("+", Num(start),
               Bin("*", Bin("-", Num(end), Num(start)),
                   Bin("-", Bin("*", Num(3), Bin("pow", t_norm(D), Num(2))),
                            Bin("*", Num(2), t_norm(D))))),
           Num(end))

\* x_expr, y_expr (lines 630-631):
\* 'if(lt(t,D), start + (end - start) * smoothstep, end)'
SlideExpr(start, end, D) ==
    IfExpr(Bin("lt", T, Num(D)),
           Bin("+", Num(start), Bin("*", Bin("-", Num(end), Num(start)), smoothstep(D))),
           Num(end))

Abs(n) == IF n < 0 THEN -n ELSE n

RECURSIVE GCD(_, _)
GCD(a, b) == IF b = 0 THEN a ELSE GCD(b, a % b)

\* n / d in lowest terms with a positive denominator (d # 0)
Rat(n, d) ==
    LET g == GCD(Abs(n), Abs(d))
        s == IF d < 0 THEN -1 ELSE 1
    IN  [n |-> s * (n \div g), d |-> s * (d \div g)]

RAdd(x, y) ==
    LET g == GCD(x.d, y.d)
    IN  Rat(x.n * (y.d \div g) + y.n * (x.d \div g), (x.d \div g) * y.d)

RNeg(x) == [n |-> -x.n, d |-> x.d]

RMul(x, y) ==
    LET a == Rat(x.n, y.d)
        b == Rat(y.n, x.d)
    IN  [n |-> a.n * b.n, d |-> a.d * b.d]

\* x < y, on the common denominator lcm(x.d, y.d)
RLt(x, y) == x.n * (y.d \div GCD(x.d, y.d)) < y.n * (x.d \div GCD(x.d, y.d))

RECURSIVE RPow(_, _)
RPow(x, k) == IF k = 0 THEN Rat(1, 1) ELSE RMul(x, RPow(x, k - 1))

\* the value of a binary operation of the evaluator on the values a and b
BinValue(op, a, b) ==
    IF op = "+" THEN RAdd(a, b)
    ELSE IF op = "-" THEN RAdd(a, RNeg(b))
    ELSE IF op = "*" THEN RMul(a, b)
    ELSE IF op = "/" THEN (IF b.n = 0 THEN Rat(0, 1) ELSE RMul(a, Rat(b.d, b.n)))
    ELSE IF op = "pow" THEN RPow(a, b.n)
    ELSE (IF RLt(a, b) THEN Rat(1, 1) ELSE Rat(0, 1))

\* a binary operation on evaluated operands; div0 records a division by zero
EvalBin(op, a, b) ==
    [v |-> BinValue(op, a.v, b.v),
     div0 |-> a.div0 \/ b.div0 \/ (op = "/" /\ b.v.n = 0)]

\* if(c, a, b) with c evaluated and r the evaluated branch it takes
EvalTaken(c, r) == [v |-> r.v, div0 |-> c.div0 \/ r.div0]

\* The value of expression e at time t, and whether a division by zero was
\* evaluated on the way.  if(c, a, b) evaluates only the branch it takes.
RECURSIVE Eval(_, _)
RECURSIVE EvalIf(_, _, _)
Eval(e, t) ==
    IF e.op = "num" THEN [v |-> Rat(e.v, 1), div0 |-> FALSE]
    ELSE IF e.op = "t" THEN [v |-> t, div0 |-> FALSE]
    ELSE IF e.op = "if" THEN EvalIf(Eval(e.c, t), e, t)
    ELSE EvalBin(e.op, Eval(e.a, t), Eval(e.b, t))
EvalIf(c, e, t) ==
    EvalTaken(c, IF c.v.n # 0 THEN Eval(e.a, t) ELSE Eval(e.b, t))

(***************************************************************************)
(* create_grid_segment (lines 552-662)                                      *)
(***************************************************************************)
\* slide_from=None
NoSlide == "None"

\* 'if prev_rows and prev_cols' (lines 572, 608).  prev_rows and prev_cols are
\* only ever tested for truth or used under that test, where None and 0 behave
\* alike: None is held as 0.
HasPrev(prev_rows, prev_cols) == prev_rows # 0 /\ prev_cols # 0

\* prev_num_videos (lines 570-573)
PrevNumVideos(prev_rows, prev_cols) ==
    IF HasPrev(prev_rows, prev_cols) THEN prev_rows * prev_cols ELSE 0

NeverNew(i, prev_num_videos) == FALSE

\* is_new (line 606)
IsNew(i, prev_num_videos) == i >= prev_num_videos

\* a new video that starts where it ends
InPlaceStart(slide_from, end) == end

\* (start_x, start_y) of a new video (lines 613-620)
NewStart(slide_from, end) ==
    IF slide_from = "right" THEN <<OUTPUT_WIDTH, end[2]>> ELSE <<end[1], OUTPUT_HEIGHT>>

\* (start_x, start_y) of video i (lines 611-623)
Start(i, end, slide_from, prev_num_videos, prev_positions) ==
    IF IsNew(i, prev_num_videos) THEN NewStart(slide_from, end) ELSE prev_positions[i]

\* x_expr, y_expr of an animated video (lines 625-631)
Animated(is_new, start, end, D) ==
    [is_new |-> is_new, animated |-> TRUE, error |-> "",
     x |-> SlideExpr(start[1], end[1], D), y |-> SlideExpr(start[2], end[2], D)]

\* an overlay loop whose line 608 tests slide_from alone
OverlaySliding(i, end, slide_from, animated, prev_num_videos, prev_positions) ==
    IF slide_from = NoSlide
    THEN [is_new |-> IsNew(i, prev_num_videos), animated |-> FALSE, error |-> "",
          x |-> Num(end[1]), y |-> Num(end[2])]
    ELSE IF SLIDE_DURATION = Unbound
    THEN [is_new |-> IsNew(i, prev_num_videos), animated |-> TRUE, error |-> "NameError"]
    ELSE Animated(IsNew(i, prev_num_videos),
                  IF IsNew(i, prev_num_videos) THEN NewStart(slide_from, end)
                  ELSE prev_positions[i],
                  end, SLIDE_DURATION[1])

\* The overlay of video i (lines 597-633): static, or animated from its start
\* position.  error names the exception the iteration raises, if any.
Overlay(i, end, slide_from, animated, prev_num_videos, prev_positions) ==
    IF ~animated
    THEN [is_new |-> IsNew(i, prev_num_videos), animated |-> FALSE, error |-> "",
          x |-> Num(end[1]), y |-> Num(end[2])]
    ELSE IF ~IsNew(i, prev_num_videos) /\ i \notin DOMAIN prev_positions
    THEN [is_new |-> FALSE, animated |-> TRUE, error |-> "KeyError"]
    ELSE IF SLIDE_DURATION = Unbound
    THEN [is_new |-> IsNew(i, prev_num_videos), animated |-> TRUE, error |-> "NameError"]
    ELSE Animated(IsNew(i, prev_num_videos),
                  Start(i, end, slide_from, prev_num_videos, prev_positions),
                  end, SLIDE_DURATION[1])

\* the exception of the first iteration that raises one, "" if none does
RECURSIVE FirstError(_, _)
FirstError(overlays, i) ==
    IF i \notin DOMAIN overlays THEN ""
    ELSE IF overlays[i].error # "" THEN overlays[i].error
    ELSE FirstError(overlays, i + 1)

\* a filter graph that leaves the videos at their base size
SegmentFrameUnscaled(args, cur, prev_positions, overlays, error) ==
    IF error # "" THEN [status |-> error, args |-> args]
    ELSE [status |-> "ok", args |-> args,
          scale |-> <<video_width, video_height>>,
          positions |-> cur.positions,
          prev_positions |-> prev_positions,
          overlays |-> overlays]

\* The frame of create_grid_segment when it hands the filter graph to ffmpeg
\* (line 655), or the exception that ended it before.  scale is the size every
\* input is scaled to by its scale filter (lines 592-593).
SegmentFrame(args, cur, prev_positions, overlays, error) ==
    IF error # "" THEN [status |-> error, args |-> args]
    ELSE [status |-> "ok", args |-> args,
          scale |-> <<cur.scaled_video_width, cur.scaled_video_height>>,
          positions |-> cur.positions,
          prev_positions |-> prev_positions,
          overlays |-> overlays]

\* the loop of lines 597-633 over the videos of the grid
OverlaidSegment(args, cur, prev_positions, overlays) ==
    SegmentFrame(args, cur, prev_positions, overlays, FirstError(overlays, 0))

\* lines 565-575: the layout of the grid and the positions of the previous one
LaidOutSegment(args, cur, prev_positions) ==
    OverlaidSegment(args, cur, prev_positions,
        [i \in 0..(args.rows * args.cols - 1) |->
            Overlay(i, cur.positions[i], args.slide_from,
                    args.slide_from # NoSlide /\ HasPrev(args.prev_rows, args.prev_cols),
                    PrevNumVideos(args.prev_rows, args.prev_cols), prev_positions)])

create_grid_segment(rows, cols, slide_from, prev_rows, prev_cols) ==
    LaidOutSegment([rows |-> rows, cols |-> cols, slide_from |-> slide_from,
                    prev_rows |-> prev_rows, prev_cols |-> prev_cols],
                   calculate_grid_layout(rows, cols),
                   IF HasPrev(prev_rows, prev_cols)
                   THEN calculate_grid_layout(prev_rows, prev_cols).positions
                   ELSE <<>>)

(***************************************************************************)
(* generate_grid_sequence (lines 375-382) and the frame of main             *)
(***************************************************************************)
generate_grid_sequence == [size \in 1..MAX_GRID_SIZE |-> <<size, size>>]

\* main at line 794: grid_sequence (line 719) and the empty segment_files; a
\* segment file is held as the shape in its name (line 800)
MainFrame(grid_sequence) ==
    [status |-> "ok", grid_sequence |-> grid_sequence, segment_files |-> <<>>]

\* idx and (rows, cols) of the next iteration of the loop of line 796
NextIdx == Len(main.segment_files) + 1
NextShape == main.grid_sequence[NextIdx]

\* the position ffmpeg gives video i of the segment at frame f
PositionAt(i, f) ==
    LET t == Rat(f, TARGET_FPS)
    IN  [x |-> Eval(segment.overlays[i].x, t), y |-> Eval(segment.overlays[i].y, t)]

(***************************************************************************)
(* Actions                                                                  *)
(***************************************************************************)
\* The module as imported: the globals of lines 16-38.  No statement of the
\* module binds SLIDE_DURATION.
Init ==
    /\ OUTPUT_WIDTH = 1920
    /\ OUTPUT_HEIGHT = 1080
    /\ USE_CABINET = TRUE
    /\ SPACING_MODE = "even"
    /\ CABINET_PNG_WIDTH = 659
    /\ CABINET_PNG_HEIGHT = 741
    /\ SLIDE_DURATION = Unbound
    /\ pc = "start"
    /\ MAX_GRID_SIZE = 5
    /\ layout = None
    /\ segment = None
    /\ frame = 0
    /\ main = None
    /\ growing = None
    /\ screensaver = None
    /\ screensaver_v2 = None
    /\ static_grid = None
    /\ extraction = None

\* The module imported by a caller that binds the global SLIDE_DURATION before
\* it calls create_grid_segment, or leaves it unbound.
InitCaller ==
    /\ OUTPUT_WIDTH = 1920
    /\ OUTPUT_HEIGHT = 1080
    /\ USE_CABINET = TRUE
    /\ SPACING_MODE = "even"
    /\ CABINET_PNG_WIDTH = 659
    /\ CABINET_PNG_HEIGHT = 741
    /\ SLIDE_DURATION \in {Unbound} \cup {<<d>> : d \in SlideDurations}
    /\ pc = "start"
    /\ MAX_GRID_SIZE = 5
    /\ layout = None
    /\ segment = None
    /\ frame = 0
    /\ main = None
    /\ growing = None
    /\ screensaver = None
    /\ screensaver_v2 = None
    /\ static_grid = None
    /\ extraction = None

\* main, lines 683-691: adopt the size of the cabinet PNG when it can be read
DetectCabinetPng ==
    /\ pc = "start"
    /\ pc' = "detected"
    /\ \/ \E p \in PngSizes :
             /\ CABINET_PNG_WIDTH' = p[1]
             /\ CABINET_PNG_HEIGHT' = p[2]
       \/ UNCHANGED <<CABINET_PNG_WIDTH, CABINET_PNG_HEIGHT>>
    /\ UNCHANGED <<OUTPUT_WIDTH, OUTPUT_HEIGHT, USE_CABINET, SPACING_MODE,
                   SLIDE_DURATION, MAX_GRID_SIZE, layout, segment, frame, main, scripts>>

\* get_user_config, lines 43-96
get_user_config ==
    /\ pc = "detected"
    /\ pc' = "configured"
    /\ USE_CABINET' \in BOOLEAN
    /\ SPACING_MODE' \in SpacingModes
    /\ \E r \in Resolutions :
          /\ OUTPUT_WIDTH' = r[1]
          /\ OUTPUT_HEIGHT' = r[2]
    /\ UNCHANGED <<CABINET_PNG_WIDTH, CABINET_PNG_HEIGHT, SLIDE_DURATION,
                   MAX_GRID_SIZE, layout, segment, frame, main, scripts>>

\* a call of calculate_grid_layout(rows, cols)
CalculateGridLayout ==
    /\ pc = "configured"
    /\ layout = None
    /\ segment = None
    /\ \E s \in Shapes \cup InvalidShapes : layout' = calculate_grid_layout(s[1], s[2])
    /\ UNCHANGED <<globals, pc, segment, frame, main, scripts>>

\* the caller drops the returned layout
DropLayout ==
    /\ pc = "configured"
    /\ layout # None
    /\ layout' = None
    /\ UNCHANGED <<globals, pc, segment, frame, main, scripts>>

\* a call of create_grid_segment up to the start of ffmpeg (line 655), or up
\* to the exception that ends it
CreateGridSegment ==
    /\ pc = "configured"
    /\ layout = None
    /\ segment = None
    /\ \E s \in SegShapes, slide_from \in {NoSlide, "right", "bottom"},
          p \in {<<0, 0>>} \cup SegShapes :
          segment' = create_grid_segment(s[1], s[2], slide_from, p[1], p[2])
    /\ pc' = IF segment'.status = "ok" THEN "rendering" ELSE "raised"
    /\ frame' = 0
    /\ UNCHANGED <<globals, layout, main, scripts>>

\* ffmpeg composites the next sampled frame of the segment
RenderFrame ==
    /\ pc = "rendering"
    /\ frame + FrameStride <= MaxFrame
    /\ frame' = frame + FrameStride
    /\ UNCHANGED <<globals, pc, layout, segment, main, scripts>>

\* ffmpeg exits and create_grid_segment returns (line 656), or the caller
\* sees the exception
ReturnSegment ==
    /\ pc \in {"rendering", "raised"}
    /\ pc' = "configured"
    /\ segment' = None
    /\ frame' = 0
    /\ UNCHANGED <<globals, layout, main, scripts>>

\* get_user_config statement by statement, as a thread beside a layout call
\* sees it: line 53
SetUseCabinet ==
    /\ pc = "detected"
    /\ pc' = "cabinet_set"
    /\ USE_CABINET' \in BOOLEAN
    /\ UNCHANGED <<OUTPUT_WIDTH, OUTPUT_HEIGHT, SPACING_MODE, CABINET_PNG_WIDTH,
                   CABINET_PNG_HEIGHT, SLIDE_DURATION, MAX_GRID_SIZE,
                   layout, segment, frame, main, scripts>>

\* line 76
SetSpacingMode ==
    /\ pc = "cabinet_set"
    /\ pc' = "spacing_set"
    /\ SPACING_MODE' \in SpacingModes
    /\ UNCHANGED <<OUTPUT_WIDTH, OUTPUT_HEIGHT, USE_CABINET, CABINET_PNG_WIDTH,
                   CABINET_PNG_HEIGHT, SLIDE_DURATION, MAX_GRID_SIZE,
                   layout, segment, frame, main, scripts>>

\* lines 89, 92
SetResolution ==
    /\ pc = "spacing_set"
    /\ pc' = "configured"
    /\ \E r \in Resolutions :
          /\ OUTPUT_WIDTH' = r[1]
          /\ OUTPUT_HEIGHT' = r[2]
    /\ UNCHANGED <<USE_CABINET, SPACING_MODE, CABINET_PNG_WIDTH,
                   CABINET_PNG_HEIGHT, SLIDE_DURATION, MAX_GRID_SIZE,
                   layout, segment, frame, main, scripts>>

\* a second thread calls calculate_grid_layout(rows, cols) and runs lines
\* 475-480
BeginLayout ==
    /\ layout = None
    /\ \E s \in RaceShapes : layout' = AspectRead(s[1], s[2])
    /\ UNCHANGED <<globals, pc, segment, frame, main, scripts>>

\* the call runs lines 483-530
ApplySpacing ==
    /\ layout # None
    /\ layout.status = "running" /\ layout.at = "aspect"
    /\ layout' = SpacingApplied(layout)
    /\ UNCHANGED <<globals, pc, segment, frame, main, scripts>>

\* the call runs lines 533-549 and returns
PlaceGrid ==
    /\ layout # None
    /\ layout.status = "running" /\ layout.at = "gaps"
    /\ layout' = GridPlaced(layout)
    /\ UNCHANGED <<globals, pc, segment, frame, main, scripts>>

\* get_user_config, lines 98-112: the maximum grid size, a positive int
SetMaxGridSize ==
    /\ pc = "configured"
    /\ pc' = "sized"
    /\ MAX_GRID_SIZE' \in GridSizes
    /\ UNCHANGED <<OUTPUT_WIDTH, OUTPUT_HEIGHT, USE_CABINET, SPACING_MODE,
                   CABINET_PNG_WIDTH, CABINET_PNG_HEIGHT, SLIDE_DURATION,
                   layout, segment, frame, main, scripts>>

\* main, lines 719-794
GenerateGridSequence ==
    /\ pc = "sized"
    /\ pc' = "segments"
    /\ main' = MainFrame(generate_grid_sequence)
    /\ UNCHANGED <<globals, layout, segment, frame, scripts>>

\* main, lines 796-802: the next grid state is rendered as a static segment,
\* create_grid_segment(grid_videos, rows, cols, HOLD_DURATION, segment_file,
\* None, None, None), up to the start of ffmpeg
CreateNextSegment ==
    /\ pc = "segments"
    /\ NextIdx <= Len(main.grid_sequence)
    /\ segment' = create_grid_segment(NextShape[1], NextShape[2], NoSlide, 0, 0)
    /\ pc' = IF segment'.status = "ok" THEN "rendering" ELSE "raised"
    /\ frame' = 0
    /\ UNCHANGED <<globals, layout, main, scripts>>

\* ffmpeg exits, create_grid_segment returns True (line 656) and main appends
\* the segment file (line 805)
AppendSegmentFile ==
    /\ pc = "rendering"
    /\ pc' = "segments"
    /\ main' = [main EXCEPT !.segment_files =
                    Append(@, <<segment.args.rows, segment.args.cols>>)]
    /\ segment' = None
    /\ frame' = 0
    /\ UNCHANGED <<globals, layout, scripts>>

\* the configuration steps of main and calls of calculate_grid_layout
Next ==
    \/ DetectCabinetPng
    \/ get_user_config
    \/ CalculateGridLayout
    \/ DropLayout

Spec == Init /\ [][Next]_vars

\* the configuration steps of main and calls of create_grid_segment
SegmentNext ==
    \/ DetectCabinetPng
    \/ get_user_config
    \/ CreateGridSegment
    \/ RenderFrame
    \/ ReturnSegment

SegmentSpec == InitCaller /\ [][SegmentNext]_vars

\* main configuring the module while another thread computes a layout
ConcurrentNext ==
    \/ DetectCabinetPng
    \/ SetUseCabinet
    \/ SetSpacingMode
    \/ SetResolution
    \/ BeginLayout
    \/ ApplySpacing
    \/ PlaceGrid

ConcurrentSpec == Init /\ [][ConcurrentNext]_vars

\* main from the detection of the cabinet PNG to the last segment
MainNext ==
    \/ DetectCabinetPng
    \/ get_user_config
    \/ SetMaxGridSize
    \/ GenerateGridSequence
    \/ CreateNextSegment
    \/ RenderFrame
    \/ AppendSegmentFile

MainSpec == Init /\ [][MainNext]_vars

(***************************************************************************)
(* Properties of calculate_grid_layout, stated of the frame in layout       *)
(***************************************************************************)
\* rows >= 1 and cols >= 1
ValidShape(rows, cols) == rows >= 1 /\ cols >= 1

\* a call has returned (line 549)
Returned == layout # None /\ layout.status = "ok"

\* the layout returned for a valid shape
HasLayout == Returned /\ ValidShape(layout.rows, layout.cols)

\* the cell indices of the layout
Cells == DOMAIN layout.positions

\* x <= y on floats
FLe(x, y) == ~FLt(y, x)

FAbs(x) == [x EXCEPT !.s = 1]

\* the margin after the grid along an axis: out - (offset + total)
MarginAfter(out, offset, total) == FSub(FInt(out), FAdd(offset, total))

\* the margins before and after the grid differ by at most one pixel
Balanced(out, offset, total) ==
    FLe(FAbs(FSub(offset, MarginAfter(out, offset, total))), FInt(1))

\* the same of whole pixels: first is the coordinate of the first cell, last
\* that of the last one, size the cell size
BalancedPixels(out, first, last, size) ==
    /\ first - (out - (last + size)) <= 1
    /\ (out - (last + size)) - first <= 1

LastCell == layout.rows * layout.cols - 1

\* C1: every cell rectangle of a returned layout lies inside the canvas:
\* 0 <= x, 0 <= y, x + cell width <= canvas width, y + cell height <= canvas
\* height, for every shape, canvas, aspect and spacing mode.
C1_CellsInsideCanvas ==
    HasLayout =>
        \A i \in Cells :
            /\ 0 <= layout.positions[i][1]
            /\ 0 <= layout.positions[i][2]
            /\ layout.positions[i][1] + layout.scaled_video_width <= OUTPUT_WIDTH
            /\ layout.positions[i][2] + layout.scaled_video_height <= OUTPUT_HEIGHT

\* C2: the grid is centered: the margins left and right of it, offset_x and
\* canvas width - (offset_x + total_grid_width), differ by at most one pixel,
\* and so do the margins above and below it; the same holds of the whole
\* pixels left free around the outermost cells.
C2_GridCentered ==
    HasLayout =>
        /\ Balanced(OUTPUT_WIDTH, layout.offset_x, layout.total_grid_width)
        /\ Balanced(OUTPUT_HEIGHT, layout.offset_y, layout.total_grid_height)
        /\ BalancedPixels(OUTPUT_WIDTH, layout.positions[0][1],
                          layout.positions[LastCell][1], layout.scaled_video_width)
        /\ BalancedPixels(OUTPUT_HEIGHT, layout.positions[0][2],
                          layout.positions[LastCell][2], layout.scaled_video_height)

\* a grid of several columns with gaps whose pixel margins left and right differ
C2_Witness ==
    /\ HasLayout
    /\ layout.cols >= 2
    /\ SPACING_MODE = "even"
    /\ layout.positions[0][1] > 0
    /\ layout.positions[0][1]
         # OUTPUT_WIDTH - (layout.positions[LastCell][1] + layout.scaled_video_width)

\* C3: the scaled cell width and height of a returned layout are never
\* negative, in every spacing mode, "minimal" included.
C3_SizeNeverNegative ==
    HasLayout => layout.scaled_video_width >= 0 /\ layout.scaled_video_height >= 0

\* the scenario of C4: a 2x2 grid of 420x315 cabinets on a 1920x1080 canvas
\* without gaps
C4_Scenario ==
    /\ HasLayout
    /\ layout.rows = 2 /\ layout.cols = 2
    /\ OUTPUT_WIDTH = 1920 /\ OUTPUT_HEIGHT = 1080
    /\ USE_CABINET /\ CABINET_PNG_WIDTH = 420 /\ CABINET_PNG_HEIGHT = 315
    /\ SPACING_MODE = "none"

\* C4: in that scenario the cells are 720x540 and lie at (240, 0), (960, 0),
\* (240, 540) and (960, 540).
C4_TwoByTwo ==
    C4_Scenario =>
        /\ layout.scaled_video_width = 720
        /\ layout.scaled_video_height = 540
        /\ Cells = 0..3
        /\ layout.positions[0] = <<240, 0>>
        /\ layout.positions[1] = <<960, 0>>
        /\ layout.positions[2] = <<240, 540>>
        /\ layout.positions[3] = <<960, 540>>

\* the scenario of C4 with its layout returned
C4_Witness == C4_Scenario /\ layout.positions[3] = <<960, 540>>

(***************************************************************************)
(* Properties of create_grid_segment, stated of the frame in segment and of *)
(* the positions its overlay expressions give at the frames ffmpeg renders  *)
(***************************************************************************)
\* a call with slide_from and a previous grid (the else branch of line 611)
Transition ==
    /\ segment # None
    /\ segment.args.slide_from # NoSlide
    /\ HasPrev(segment.args.prev_rows, segment.args.prev_cols)

\* a transition whose filter graph reached ffmpeg
Animating == Transition /\ segment.status = "ok"

\* the number of cells of the previous grid
P == segment.args.prev_rows * segment.args.prev_cols

\* the slide duration of an animating segment
Duration == SLIDE_DURATION[1]

Videos == DOMAIN segment.positions

\* the integer pixel position p as a pair of rationals
Exactly(p) == <<Rat(p[1], 1), Rat(p[2], 1)>>

\* the position of video i at frame f as a pair of rationals
Coordinates(p) == <<p.x.v, p.y.v>>
Position(i, f) == Coordinates(PositionAt(i, f))

\* whether evaluating the position p divided by zero
DividedByZero(p) == p.x.div0 \/ p.y.div0

\* the start position the claims name: off canvas for a new cell, the position
\* in the previous layout for a persisting one
ClaimedStart(i, prev_positions) ==
    IF i >= P
    THEN IF segment.args.slide_from = "right"
         THEN <<OUTPUT_WIDTH, segment.positions[i][2]>>
         ELSE <<segment.positions[i][1], OUTPUT_HEIGHT>>
    ELSE prev_positions[i]

\* the positions of the previous layout, computed anew
PrevPositions ==
    calculate_grid_layout(segment.args.prev_rows, segment.args.prev_cols).positions

\* every video is at its claimed start position at frame f
AllAtStart(f, prev_positions) ==
    \A i \in Videos : Position(i, f) = Exactly(ClaimedStart(i, prev_positions))

\* some video starts away from its end position
SomeMoves(prev_positions) ==
    \E i \in Videos : ClaimedStart(i, prev_positions) # segment.positions[i]

Settled(f) == f >= Duration * TARGET_FPS

\* every video is exactly at its position in the new layout at frame f
AllAtEnd(f) == \A i \in Videos : Position(i, f) = Exactly(segment.positions[i])

Ease(u) == RMul(RMul(u, u), RAdd(Rat(3, 1), RNeg(RMul(Rat(2, 1), u))))

\* start + (end - start) * ease(u)
Between(start, end, u) ==
    RAdd(Rat(start, 1), RMul(Rat(end - start, 1), Ease(u)))

\* the coordinate the claim gives at frame f of a slide of D seconds
ClaimedCoord(start, end, D, f) ==
    IF f < D * TARGET_FPS THEN Between(start, end, Rat(f, D * TARGET_FPS))
    ELSE Rat(end, 1)

\* the emitted expression e has the form if(lt(t,D), ..., end)
GuardedForm(e, end, D) ==
    /\ e.op = "if"
    /\ e.c = Bin("lt", T, Num(D))
    /\ e.b = Num(end)

\* video i follows the claimed curve on both axes at frame f
OnCurve(i, f, start, end, D) ==
    /\ Position(i, f) = <<ClaimedCoord(start[1], end[1], D, f),
                          ClaimedCoord(start[2], end[2], D, f)>>
    /\ GuardedForm(segment.overlays[i].x, end[1], D)
    /\ GuardedForm(segment.overlays[i].y, end[2], D)

AllOnCurve(f, prev_positions) ==
    \A i \in Videos :
        OnCurve(i, f, ClaimedStart(i, prev_positions), segment.positions[i], Duration)

RLe(x, y) == ~RLt(y, x)

\* c lies between a and b
RBetween(c, a, b) == (RLe(a, c) /\ RLe(c, b)) \/ (RLe(b, c) /\ RLe(c, a))

\* from c1 to c2 the coordinate does not move away from end, and both lie
\* between start and end
Toward(start, end, c1, c2) ==
    /\ RBetween(c1, Rat(start, 1), Rat(end, 1))
    /\ RBetween(c2, Rat(start, 1), Rat(end, 1))
    /\ RBetween(c2, c1, Rat(end, 1))

\* video i does not move away from its end between frames f1 <= f2
MovesToward(i, f1, f2, start, end) ==
    /\ Toward(start[1], end[1], Position(i, f1)[1], Position(i, f2)[1])
    /\ Toward(start[2], end[2], Position(i, f1)[2], Position(i, f2)[2])

\* the persisting videos do so between frames f1 <= f2 within the slide
PersistingMoveToward(f1, f2, prev_positions) ==
    f2 <= Duration * TARGET_FPS =>
        \A i \in Videos :
            i < P => MovesToward(i, f1, f2, prev_positions[i], segment.positions[i])

OneToFour(prev_positions) ==
    (P = 1 /\ Videos = 0..3 /\ segment.args.slide_from = "right") =>
        /\ Position(0, 0) = Exactly(prev_positions[0])
        /\ \A i \in 1..3 : Position(i, 0)[1] = Rat(OUTPUT_WIDTH, 1)

FirstSegment ==
    /\ segment # None
    /\ ~HasPrev(segment.args.prev_rows, segment.args.prev_cols)

\* video i is overlaid at the literal position p
StaticAt(i, p) ==
    /\ ~segment.overlays[i].animated
    /\ segment.overlays[i].x = Num(p[1])
    /\ segment.overlays[i].y = Num(p[2])

\* C11: without a previous layout every cell is overlaid at its position in
\* the new layout, as a literal, and is there at every rendered frame,
\* whatever slide_from is given; the call raises nothing.
C11_FirstSegmentStatic ==
    FirstSegment =>
        /\ segment.status = "ok"
        /\ \A i \in Videos :
              /\ StaticAt(i, segment.positions[i])
              /\ Position(i, frame) = Exactly(segment.positions[i])
              /\ Position(i, frame + 1) = Exactly(segment.positions[i])

\* a 2x2 first segment called with slide_from="right", some frames in
C11_Witness ==
    /\ FirstSegment
    /\ segment.args.slide_from = "right"
    /\ segment.status = "ok"
    /\ Videos = 0..3
    /\ frame > 0
    /\ Position(3, frame) = Exactly(segment.positions[3])

\* the scale filters resize every video to the cell size of layout l
ScaledTo(l) == segment.scale = <<l.scaled_video_width, l.scaled_video_height>>

Rendered == main.segment_files

\* the dimension that grows by one from shape a to shape b, the other one
\* staying as it is; "" if the step is of another kind
Grown(a, b) ==
    IF b[1] = a[1] /\ b[2] = a[2] + 1 THEN "cols"
    ELSE IF b[1] = a[1] + 1 /\ b[2] = a[2] THEN "rows"
    ELSE ""

\* C20: the rendered sequence starts with the 1x1 grid, every following
\* grid state has one column or one row more than the one before it and is
\* otherwise the same, and columns and rows take turns.
C20_AlternateGrowth ==
    main # None =>
        /\ Rendered # <<>> => Rendered[1] = <<1, 1>>
        /\ \A k \in 1..(Len(Rendered) - 1) : Grown(Rendered[k], Rendered[k + 1]) # ""
        /\ \A k \in 2..(Len(Rendered) - 1) :
              Grown(Rendered[k - 1], Rendered[k]) # Grown(Rendered[k], Rendered[k + 1])

(***************************************************************************)
(* Further properties of calculate_grid_layout                              *)
(***************************************************************************)
\* a call with rows < 1 or cols < 1 has ended, by return or by exception
InvalidCall == layout # None /\ ~ValidShape(layout.rows, layout.cols)

\* C12: a call with rows < 1 or cols < 1 ends in an error; no layout is
\* returned for such a shape.
C12_InvalidShapeRejected == InvalidCall => ~Returned

\* what calculate_grid_layout returns from frame l (line 549)
Result(l) == <<l.scaled_video_width, l.scaled_video_height, l.positions>>

\* a call that ran beside get_user_config has returned
RacedReturn == Returned /\ "alone" \in DOMAIN layout

\* C19: a layout computation that runs while the configuration is changed
\* returns what it would have returned running alone with the configuration
\* it was started with; no interleaving yields a layout that mixes two
\* configurations.
C19_AsIfAlone == RacedReturn => Result(layout) = Result(layout.alone)

\* a layout returned in "even" spacing mode for a valid shape
EvenLayout == HasLayout /\ SPACING_MODE = "even"

\* C14 as claimed: in "even" mode the centering offset, the gap between the
\* canvas edge and the outermost cells, is larger than the gap between
\* adjacent cells, on both axes.
C14_EdgeGapLarger ==
    EvenLayout =>
        /\ FLt(layout.h_gap, layout.offset_x)
        /\ FLt(layout.v_gap, layout.offset_y)

\* x and y differ by less than a thousandth of a pixel
Near(x, y) == FLt(FMul(FAbs(FSub(x, y)), FInt(1000)), FInt(1))

\* C14, amended: in "even" mode the centering offset equals the gap between
\* adjacent cells up to floating-point rounding, on both axes: the edge gap
\* is the same gap, not a larger one.
C14_EdgeGapEqualsGap ==
    EvenLayout =>
        /\ Near(layout.offset_x, layout.h_gap)
        /\ Near(layout.offset_y, layout.v_gap)

\* a grid of several rows and columns with gaps of more than a pixel whose
\* edge gaps are not larger than its inner gaps
C14_Witness ==
    /\ EvenLayout
    /\ layout.rows >= 2 /\ layout.cols >= 2
    /\ FLt(FInt(1), layout.h_gap) /\ FLt(FInt(1), layout.v_gap)
    /\ FLe(layout.offset_x, layout.h_gap)
    /\ FLe(layout.offset_y, layout.v_gap)

\* scale_factor of the "none" mode (lines 485-489)
NoneFactor(rows, cols) ==
    FMin(AxisScale(OUTPUT_WIDTH, cols, video_width),
         AxisScale(OUTPUT_HEIGHT, rows, video_height))

\* (out - size * dim) / (dim + 1)
SharedGap(out, size, dim) == FDiv(FInt(out - size * dim), FInt(dim + 1))

\* a whole number n of pixels is within one pixel of gap
WithinPixel(n, gap) == FLe(FAbs(FSub(FInt(n), gap)), FInt(1))

\* the x of column c and the y of row r
ColX(c) == layout.positions[c][1]
RowY(r) == layout.positions[r * layout.cols][2]

\* the free pixels before the first cell, between adjacent cells and after
\* the last cell are all within one pixel of gap; first and last are the
\* coordinates of the outermost cells, inner the free pixels between neighbours
GapEverywhere(out, dim, size, gap, first, last, inner) ==
    /\ WithinPixel(first, gap)
    /\ WithinPixel(out - (last + size), gap)
    /\ \A k \in 1..(dim - 1) : WithinPixel(inner[k], gap)

\* the free pixels between columns c-1 and c, and between rows r-1 and r
ColGaps == [c \in 1..(layout.cols - 1) |->
              ColX(c) - (ColX(c - 1) + layout.scaled_video_width)]
RowGaps == [r \in 1..(layout.rows - 1) |->
              RowY(r) - (RowY(r - 1) + layout.scaled_video_height)]

\* C15: in "even" mode the cells are scaled by 0.95 times the "none" factor,
\* the gap on each axis is (canvas - scaled cell * grid dim) / (grid dim + 1),
\* and the free pixels between adjacent cells and between the outermost
\* cells and both canvas edges are within one pixel of that gap.
C15_EvenGaps ==
    EvenLayout =>
        /\ layout.scaled_video_width
             = ScaledSize(video_width, FMul(NoneFactor(layout.rows, layout.cols), F095))
        /\ layout.scaled_video_height
             = ScaledSize(video_height, FMul(NoneFactor(layout.rows, layout.cols), F095))
        /\ layout.h_gap = SharedGap(OUTPUT_WIDTH, layout.scaled_video_width, layout.cols)
        /\ layout.v_gap = SharedGap(OUTPUT_HEIGHT, layout.scaled_video_height, layout.rows)
        /\ GapEverywhere(OUTPUT_WIDTH, layout.cols, layout.scaled_video_width,
                         layout.h_gap, ColX(0), ColX(layout.cols - 1), ColGaps)
        /\ GapEverywhere(OUTPUT_HEIGHT, layout.rows, layout.scaled_video_height,
                         layout.v_gap, RowY(0), RowY(layout.rows - 1), RowGaps)

\* a grid of three columns whose pixel gaps are not all the same
C15_Witness ==
    /\ EvenLayout
    /\ layout.cols = 3
    /\ FLt(FInt(1), layout.h_gap)
    /\ ColGaps[1] # ColX(0)
    /\ WithinPixel(ColGaps[1], layout.h_gap)

\* x is a whole number
IsWhole(x) == FInt(FTrunc(x)) = x

\* floor(x): the greatest int <= x
FFloor(x) == IF x.s = 1 \/ IsWhole(x) THEN FTrunc(x) ELSE FTrunc(x) - 1

\* floor(offset + k * (size + gap))
FlooredCoord(offset, k, size, gap) ==
    FFloor(FAdd(offset, FMul(FInt(k), FAdd(FInt(size), gap))))

\* C16: a returned layout has exactly the cells 0..rows*cols-1, and the cell
\* at row r, column c has index r*cols + c and position
\* (floor(offset_x + c*(cell width + h_gap)),
\*  floor(offset_y + r*(cell height + v_gap))), for every valid input,
\* negative centering offsets included.
C16_RowMajorFloored ==
    HasLayout =>
        /\ Cells = 0..(layout.rows * layout.cols - 1)
        /\ \A r \in 0..(layout.rows - 1), c \in 0..(layout.cols - 1) :
              layout.positions[r * layout.cols + c]
                = <<FlooredCoord(layout.offset_x, c, layout.scaled_video_width,
                                 layout.h_gap),
                    FlooredCoord(layout.offset_y, r, layout.scaled_video_height,
                                 layout.v_gap)>>

(***************************************************************************)
(* generate_growing_grid.py: the sequence of grid sizes                     *)
(***************************************************************************)
\* the maximum grid dimension entered ranges over 1..MaxSize
MaxSize == 10

ShrinkFromPeak(max_grid_size) == max_grid_size

\* range(MAX_GRID_SIZE - 1, 0, -1), line 443: the first size of the shrinking phase
ShrinkFrom(max_grid_size) == max_grid_size - 1

\* get_user_config, lines 79-88: the global MAX_GRID_SIZE of the growing script,
\* an int > 0
SetGrowingGridSize ==
    /\ growing = None
    /\ \E n \in 1..MaxSize : growing' = [pc |-> "configured", MAX_GRID_SIZE |-> n]
    /\ UNCHANGED <<globals, pc, layout, segment, frame, main,
                   screensaver, screensaver_v2, static_grid, extraction>>

\* main line 704 calls generate_grid_sequence: sequence = [] (line 438) and the
\* growing loop starts at size 1 (line 440)
CallGridSequence ==
    /\ growing # None
    /\ growing.pc = "configured"
    /\ growing' = [pc |-> "grow", MAX_GRID_SIZE |-> growing.MAX_GRID_SIZE,
                   sequence |-> <<>>, size |-> 1]
    /\ UNCHANGED <<globals, pc, layout, segment, frame, main,
                   screensaver, screensaver_v2, static_grid, extraction>>

\* lines 440-441: one iteration of the growing loop
GrowAppend ==
    /\ growing # None
    /\ growing.pc = "grow"
    /\ growing.size < growing.MAX_GRID_SIZE + 1
    /\ growing' = [growing EXCEPT !.sequence = Append(@, growing.size),
                                  !.size = @ + 1]
    /\ UNCHANGED <<globals, pc, layout, segment, frame, main,
                   screensaver, screensaver_v2, static_grid, extraction>>

\* range(1, MAX_GRID_SIZE + 1) is exhausted; the shrinking loop starts (line 443)
GrowDone ==
    /\ growing # None
    /\ growing.pc = "grow"
    /\ growing.size >= growing.MAX_GRID_SIZE + 1
    /\ growing' = [growing EXCEPT !.pc = "shrink",
                                  !.size = ShrinkFrom(growing.MAX_GRID_SIZE)]
    /\ UNCHANGED <<globals, pc, layout, segment, frame, main,
                   screensaver, screensaver_v2, static_grid, extraction>>

\* lines 443-444: one iteration of the shrinking loop
ShrinkAppend ==
    /\ growing # None
    /\ growing.pc = "shrink"
    /\ growing.size > 0
    /\ growing' = [growing EXCEPT !.sequence = Append(@, growing.size),
                                  !.size = @ - 1]
    /\ UNCHANGED <<globals, pc, layout, segment, frame, main,
                   screensaver, screensaver_v2, static_grid, extraction>>

\* line 445: return sequence
ReturnSequence ==
    /\ growing # None
    /\ growing.pc = "shrink"
    /\ growing.size <= 0
    /\ growing' = [growing EXCEPT !.pc = "returned"]
    /\ UNCHANGED <<globals, pc, layout, segment, frame, main,
                   screensaver, screensaver_v2, static_grid, extraction>>

\* the growing script from the grid size prompt to the returned sequence
GrowingNext ==
    \/ SetGrowingGridSize
    \/ CallGridSequence
    \/ GrowAppend
    \/ GrowDone
    \/ ShrinkAppend
    \/ ReturnSequence

GrowingSpec == Init /\ [][GrowingNext]_vars

SequenceReturned == growing # None /\ growing.pc = "returned"

Peaks(seq, n) == {k \in DOMAIN seq : seq[k] = n}

Palindrome(seq) == \A k \in DOMAIN seq : seq[k] = seq[Len(seq) + 1 - k]

UnitSteps(seq) ==
    \A k \in 1..(Len(seq) - 1) : seq[k + 1] - seq[k] \in {-1, 1}

\* C21: for every MAX_GRID_SIZE = N >= 1 the sequence returned by
\* generate_grid_sequence is 1, 2, ..., N, N-1, ..., 1: it has length 2N-1,
\* starts and ends at 1, reaches N exactly once, is a palindrome, and
\* consecutive sizes differ by exactly 1.
C21_GrowShrinkSequence ==
    SequenceReturned =>
        /\ growing.MAX_GRID_SIZE >= 1
        /\ Len(growing.sequence) = 2 * growing.MAX_GRID_SIZE - 1
        /\ growing.sequence[1] = 1
        /\ growing.sequence[Len(growing.sequence)] = 1
        /\ \A k \in DOMAIN growing.sequence :
              growing.sequence[k] = IF k <= growing.MAX_GRID_SIZE
                                    THEN k
                                    ELSE 2 * growing.MAX_GRID_SIZE - k
        /\ Cardinality(Peaks(growing.sequence, growing.MAX_GRID_SIZE)) = 1
        /\ Palindrome(growing.sequence)
        /\ UnitSteps(growing.sequence)

\* the sequence of a 3x3 maximum has been returned: 1, 2, 3, 2, 1
C21_Witness ==
    /\ SequenceReturned
    /\ growing.MAX_GRID_SIZE = 3
    /\ growing.sequence = <<1, 2, 3, 2, 1>>

(***************************************************************************)
(* generate_grid_screensaver.py: clips, position videos and the grid video  *)
(***************************************************************************)
\* at most MaxFailed of the TOTAL_CLIPS extractions fail
MaxFailed == 1

\* TOTAL_CLIPS ranges over TOTAL_POSITIONS..TOTAL_POSITIONS + MaxExtra
MaxExtra == 2

\* ffmpeg composites every RenderStride-th frame of the 30 fps canvas
RenderStride == 15

\* the clips list extract_clips returns: the paths of the extractions that
\* succeeded, named by their loop index, in loop order
RECURSIVE Extracted(_, _, _)
Extracted(i, num_clips, failed) ==
    IF i >= num_clips THEN <<>>
    ELSE (IF i \in failed THEN <<>> ELSE <<i>>) \o Extracted(i + 1, num_clips, failed)

EverythingFirst(clip_idx, total_positions) ==
    IF clip_idx < total_positions THEN clip_idx ELSE 0

\* position = clip_idx % TOTAL_POSITIONS (line 263)
PositionOf(clip_idx, total_positions) == clip_idx % total_positions

\* lines 259-264: position_clips after the loop over enumerate(clips)
RECURSIVE AssignClips(_, _, _, _)
AssignClips(position_clips, clips, clip_idx, total_positions) ==
    IF clip_idx >= Len(clips) THEN position_clips
    ELSE AssignClips([position_clips EXCEPT
                         ![PositionOf(clip_idx, total_positions)] =
                             Append(@, clips[clip_idx + 1])],
                     clips, clip_idx + 1, total_positions)

\* lines 267-300: the positions that get a video, in position order
RECURSIVE PositionVideos(_, _, _)
PositionVideos(position_clips, pos, total_positions) ==
    IF pos >= total_positions THEN <<>>
    ELSE (IF position_clips[pos] = <<>> THEN <<>> ELSE <<pos>>)
         \o PositionVideos(position_clips, pos + 1, total_positions)

\* concatenate_position_clips (lines 249-302)
concatenate_position_clips(clips, total_positions) ==
    [position_clips |-> AssignClips([pos \in 0..(total_positions - 1) |-> <<>>],
                                    clips, 0, total_positions),
     position_videos |-> PositionVideos(
                             AssignClips([pos \in 0..(total_positions - 1) |-> <<>>],
                                         clips, 0, total_positions),
                             0, total_positions)]

Undelayed(pos, change_interval) == Rat(0, 1)

\* delay = pos * CHANGE_INTERVAL (line 346)
Delay(pos, change_interval) == RMul(Rat(pos, 1), change_interval)

\* lines 342-352: the overlay of input pos
OverlayAt(pos, c) ==
    [input |-> pos,
     x |-> (pos % c.GRID_COLS) * c.CELL_WIDTH,
     y |-> (pos \div c.GRID_COLS) * c.CELL_HEIGHT,
     enable |-> Delay(pos, c.CHANGE_INTERVAL)]

\* the inputs whose overlay is composited at time t: enable='gte(t,{delay})'
VisibleAt(overlays, t) ==
    {overlays[k].input : k \in {j \in DOMAIN overlays : ~RLt(t, overlays[j].enable)}}

\* generate_grid_video, lines 319-352, with the first frame composited
generate_grid_video(c, first_duration) ==
    [overlays |-> [k \in 1..Len(c.position_videos) |-> OverlayAt(k - 1, c)],
     total_duration |-> RAdd(RMul(Rat(c.TOTAL_POSITIONS - 1, 1), c.CHANGE_INTERVAL),
                             first_duration),
     frame |-> 0]

\* the duration ffprobe reports for the video of a position: its clips, each
\* cut to CLIP_DURATION (-t, line 231), one after the other
PositionDuration(c, pos) == RMul(Rat(Len(c.position_clips[pos]), 1), c.CLIP_DURATION)

\* get_user_config, lines 31-148, on the 1080p canvas: a grid of rows x cols
\* with rows, cols > 0 (lines 57-63), the cell size (lines 68-69),
\* TOTAL_CLIPS >= TOTAL_POSITIONS (lines 81-83), CLIP_DURATION > 0 (lines
\* 98-105) and CHANGE_INTERVAL > 0 (lines 112-118)
ScreensaverConfig ==
    /\ screensaver = None
    /\ screensaver_v2 = None
    /\ \E g \in {<<1, 1>>, <<1, 2>>, <<2, 2>>, <<2, 3>>, <<3, 2>>},
          extra \in 0..MaxExtra,
          d \in {Rat(1, 1), Rat(5, 2)}, ci \in {Rat(1, 2), Rat(2, 1)} :
          screensaver' =
              [pc |-> "configured",
               GRID_ROWS |-> g[1], GRID_COLS |-> g[2],
               TOTAL_POSITIONS |-> g[1] * g[2],
               CELL_WIDTH |-> 1920 \div g[2], CELL_HEIGHT |-> 1080 \div g[1],
               TOTAL_CLIPS |-> g[1] * g[2] + extra,
               CLIP_DURATION |-> d, CHANGE_INTERVAL |-> ci]
    /\ UNCHANGED <<globals, pc, layout, segment, frame, main,
                   growing, screensaver_v2, static_grid, extraction>>

\* main, lines 417-423: extract_clips returns the clips it could cut; main
\* exits when they do not fill the grid once
ScreensaverExtract ==
    /\ screensaver # None
    /\ screensaver.pc = "configured"
    /\ \E failed \in {f \in SUBSET (0..(screensaver.TOTAL_CLIPS - 1)) :
                         Cardinality(f) <= MaxFailed} :
          screensaver' =
              [clips |-> Extracted(0, screensaver.TOTAL_CLIPS, failed)] @@
              [screensaver EXCEPT !.pc =
                  IF screensaver.TOTAL_CLIPS - Cardinality(failed)
                         < screensaver.TOTAL_POSITIONS
                  THEN "exit" ELSE "extracted"]
    /\ UNCHANGED <<globals, pc, layout, segment, frame, main,
                   growing, screensaver_v2, static_grid, extraction>>

\* main, line 429
ScreensaverConcatenate ==
    /\ screensaver # None
    /\ screensaver.pc = "extracted"
    /\ screensaver' =
           concatenate_position_clips(screensaver.clips, screensaver.TOTAL_POSITIONS)
           @@ [screensaver EXCEPT !.pc = "concatenated"]
    /\ UNCHANGED <<globals, pc, layout, segment, frame, main,
                   growing, screensaver_v2, static_grid, extraction>>

\* main, line 432: generate_grid_video up to the start of the ffmpeg render
ScreensaverGenerate ==
    /\ screensaver # None
    /\ screensaver.pc = "concatenated"
    /\ screensaver' =
           generate_grid_video(screensaver,
                               PositionDuration(screensaver,
                                                screensaver.position_videos[1]))
           @@ [screensaver EXCEPT !.pc = "rendering"]
    /\ UNCHANGED <<globals, pc, layout, segment, frame, main,
                   growing, screensaver_v2, static_grid, extraction>>

\* ffmpeg composites the next frame while its time is below -t total_duration
ScreensaverRender ==
    /\ screensaver # None
    /\ screensaver.pc = "rendering"
    /\ RLt(Rat(screensaver.frame + RenderStride, 30), screensaver.total_duration)
    /\ screensaver' = [screensaver EXCEPT !.frame = @ + RenderStride]
    /\ UNCHANGED <<globals, pc, layout, segment, frame, main,
                   growing, screensaver_v2, static_grid, extraction>>

(***************************************************************************)
(* generate_grid_screensaver_v2.py: clips, position videos and the grid     *)
(* video, in the mode that extracts clips from long videos                  *)
(***************************************************************************)
\* The clip a position video of n clips shows at time t: the clips are cut to
\* CLIP_DURATION (-t, line 342) and concatenated, and overlay repeats the
\* last frame of an input that has ended
ClipIndex(t, clip_duration, n) ==
    IF (t.n * clip_duration.d) \div (t.d * clip_duration.n) < n
    THEN (t.n * clip_duration.d) \div (t.d * clip_duration.n)
    ELSE n - 1

\* get_user_config, lines 36-225, with USE_PRECUT_CLIPS = False on the 1080p
\* canvas: the same prompts as in generate_grid_screensaver.py
V2Config ==
    /\ screensaver = None
    /\ screensaver_v2 = None
    /\ \E g \in {<<1, 1>>, <<1, 2>>, <<2, 2>>, <<2, 3>>, <<3, 2>>},
          extra \in 0..MaxExtra,
          d \in {Rat(1, 1), Rat(5, 2)}, ci \in {Rat(1, 2), Rat(2, 1)} :
          screensaver_v2' =
              [pc |-> "configured",
               GRID_ROWS |-> g[1], GRID_COLS |-> g[2],
               TOTAL_POSITIONS |-> g[1] * g[2],
               CELL_WIDTH |-> 1920 \div g[2], CELL_HEIGHT |-> 1080 \div g[1],
               TOTAL_CLIPS |-> g[1] * g[2] + extra,
               CLIP_DURATION |-> d, CHANGE_INTERVAL |-> ci]
    /\ UNCHANGED <<globals, pc, layout, segment, frame, main,
                   growing, screensaver, static_grid, extraction>>

\* main, lines 584-591: extract_clips returns the clips it could cut; main
\* exits when they do not fill the grid once
V2Extract ==
    /\ screensaver_v2 # None
    /\ screensaver_v2.pc = "configured"
    /\ \E failed \in {f \in SUBSET (0..(screensaver_v2.TOTAL_CLIPS - 1)) :
                         Cardinality(f) <= MaxFailed} :
          screensaver_v2' =
              [clips |-> Extracted(0, screensaver_v2.TOTAL_CLIPS, failed)] @@
              [screensaver_v2 EXCEPT !.pc =
                  IF screensaver_v2.TOTAL_CLIPS - Cardinality(failed)
                         < screensaver_v2.TOTAL_POSITIONS
                  THEN "exit" ELSE "extracted"]
    /\ UNCHANGED <<globals, pc, layout, segment, frame, main,
                   growing, screensaver, static_grid, extraction>>

\* main, line 597: concatenate_position_clips (lines 411-464), statement for
\* statement the function of generate_grid_screensaver.py
V2Concatenate ==
    /\ screensaver_v2 # None
    /\ screensaver_v2.pc = "extracted"
    /\ screensaver_v2' =
           concatenate_position_clips(screensaver_v2.clips,
                                      screensaver_v2.TOTAL_POSITIONS)
           @@ [screensaver_v2 EXCEPT !.pc = "concatenated"]
    /\ UNCHANGED <<globals, pc, layout, segment, frame, main,
                   growing, screensaver, static_grid, extraction>>

\* main, line 600: generate_grid_video (lines 467-518) up to the first
\* composited frame.  The overlays carry no enable expression and
\* total_duration = first_duration (line 487); every position shows its first
\* clip from t = 0.
V2Generate ==
    /\ screensaver_v2 # None
    /\ screensaver_v2.pc = "concatenated"
    /\ screensaver_v2' =
           [overlays |->
                [k \in 1..Len(screensaver_v2.position_videos) |->
                    [input |-> k - 1,
                     x |-> ((k - 1) % screensaver_v2.GRID_COLS)
                               * screensaver_v2.CELL_WIDTH,
                     y |-> ((k - 1) \div screensaver_v2.GRID_COLS)
                               * screensaver_v2.CELL_HEIGHT]],
            total_duration |->
                PositionDuration(screensaver_v2, screensaver_v2.position_videos[1]),
            frame |-> 0,
            showing |-> [k \in 1..Len(screensaver_v2.position_videos) |-> 0],
            changes |-> [k \in 1..Len(screensaver_v2.position_videos) |->
                            <<Rat(0, 1)>>]]
           @@ [screensaver_v2 EXCEPT !.pc = "rendering"]
    /\ UNCHANGED <<globals, pc, layout, segment, frame, main,
                   growing, screensaver, static_grid, extraction>>

\* ffmpeg composites the next frame while its time is below -t total_duration:
\* each overlay shows the frame of its position video at that time
V2Render ==
    /\ screensaver_v2 # None
    /\ screensaver_v2.pc = "rendering"
    /\ RLt(Rat(screensaver_v2.frame + RenderStride, TARGET_FPS),
           screensaver_v2.total_duration)
    /\ screensaver_v2' =
           [screensaver_v2 EXCEPT
               !.frame = @ + RenderStride,
               !.showing = [k \in DOMAIN @ |->
                   ClipIndex(Rat(screensaver_v2.frame + RenderStride, TARGET_FPS),
                             screensaver_v2.CLIP_DURATION,
                             Len(screensaver_v2.position_clips[k - 1]))],
               !.changes = [k \in DOMAIN @ |->
                   IF ClipIndex(Rat(screensaver_v2.frame + RenderStride, TARGET_FPS),
                                screensaver_v2.CLIP_DURATION,
                                Len(screensaver_v2.position_clips[k - 1]))
                          # screensaver_v2.showing[k]
                   THEN Append(@[k],
                               Rat(screensaver_v2.frame + RenderStride, TARGET_FPS))
                   ELSE @[k]]]
    /\ UNCHANGED <<globals, pc, layout, segment, frame, main,
                   growing, screensaver, static_grid, extraction>>

\* one run of generate_grid_screensaver.py or of generate_grid_screensaver_v2.py,
\* from the prompts to the last frame
ScreensaverNext ==
    \/ ScreensaverConfig
    \/ ScreensaverExtract
    \/ ScreensaverConcatenate
    \/ ScreensaverGenerate
    \/ ScreensaverRender
    \/ V2Config
    \/ V2Extract
    \/ V2Concatenate
    \/ V2Generate
    \/ V2Render

ScreensaverSpec == Init /\ [][ScreensaverNext]_vars

ScreensaverRendering == screensaver # None /\ screensaver.pc = "rendering"

\* the time of the frame being composited
Now == Rat(screensaver.frame, 30)

RLeq(x, y) == ~RLt(y, x)

\* C22: in generate_grid_screensaver.py grid position p is overlaid at
\* (col*CELL_WIDTH, row*CELL_HEIGHT) with row = p // GRID_COLS and
\* col = p % GRID_COLS, and is visible exactly from t = p * CHANGE_INTERVAL
\* on: the positions come up left-to-right, top-to-bottom, one every
\* CHANGE_INTERVAL seconds, and the output lasts
\* (TOTAL_POSITIONS-1)*CHANGE_INTERVAL plus the duration of the first
\* position video.
C22_StaggeredReveal ==
    ScreensaverRendering =>
        /\ Len(screensaver.overlays) = screensaver.TOTAL_POSITIONS
        /\ \A p \in 0..(screensaver.TOTAL_POSITIONS - 1) :
              /\ screensaver.overlays[p + 1].input = p
              /\ screensaver.overlays[p + 1].x
                     = (p % screensaver.GRID_COLS) * screensaver.CELL_WIDTH
              /\ screensaver.overlays[p + 1].y
                     = (p \div screensaver.GRID_COLS) * screensaver.CELL_HEIGHT
              /\ (p \in VisibleAt(screensaver.overlays, Now))
                     <=> RLeq(RMul(Rat(p, 1), screensaver.CHANGE_INTERVAL), Now)
              /\ p > 0 =>
                     RAdd(screensaver.overlays[p + 1].enable,
                          RNeg(screensaver.overlays[p].enable))
                         = screensaver.CHANGE_INTERVAL
        /\ \A p \in VisibleAt(screensaver.overlays, Now) :
              \A q \in 0..p : q \in VisibleAt(screensaver.overlays, Now)
        /\ screensaver.total_duration
               = RAdd(RMul(Rat(screensaver.TOTAL_POSITIONS - 1, 1),
                           screensaver.CHANGE_INTERVAL),
                      PositionDuration(screensaver, 0))

\* a 2x2 grid changing every 2 s at t = 4: positions 0, 1 and 2 are visible,
\* position 3 is not yet
C22_Witness ==
    /\ ScreensaverRendering
    /\ screensaver.GRID_ROWS = 2 /\ screensaver.GRID_COLS = 2
    /\ screensaver.CHANGE_INTERVAL = Rat(2, 1)
    /\ Now = Rat(4, 1)
    /\ VisibleAt(screensaver.overlays, Now) = {0, 1, 2}
    /\ screensaver.overlays[3].x = 0 /\ screensaver.overlays[3].y = 540

V2Rendering == screensaver_v2 # None /\ screensaver_v2.pc = "rendering"

\* C23: in generate_grid_screensaver_v2.py the grid positions change
\* left-to-right, top-to-bottom every CHANGE_INTERVAL seconds: for every p
\* from 1 to TOTAL_POSITIONS-1, each change of the picture at position p
\* (its coming up included) happens CHANGE_INTERVAL seconds after the
\* corresponding change at position p-1.
C23_V2Staggered ==
    V2Rendering =>
        \A p \in 1..(screensaver_v2.TOTAL_POSITIONS - 1) :
            \A k \in DOMAIN screensaver_v2.changes[p + 1] :
                /\ k \in DOMAIN screensaver_v2.changes[p]
                /\ screensaver_v2.changes[p + 1][k]
                       = RAdd(screensaver_v2.changes[p][k],
                              screensaver_v2.CHANGE_INTERVAL)

\* concatenate_position_clips has returned in run s of one of the two scripts
Concatenated(s) == s # None /\ s.pc \in {"concatenated", "rendering"}

\* the positions whose list holds the clip c
PositionsOf(s, c) ==
    {pos \in DOMAIN s.position_clips :
        \E j \in DOMAIN s.position_clips[pos] : s.position_clips[pos][j] = c}

\* clip k of s.clips is in the list of position k mod TOTAL_POSITIONS and in no
\* other, each list holds its clips once and in input order, and the lengths of
\* two lists differ by at most 1
RoundRobin(s) ==
    /\ DOMAIN s.position_clips = 0..(s.TOTAL_POSITIONS - 1)
    /\ \A k \in 0..(Len(s.clips) - 1) :
          PositionsOf(s, s.clips[k + 1]) = {k % s.TOTAL_POSITIONS}
    /\ \A pos \in DOMAIN s.position_clips :
          \A j \in DOMAIN s.position_clips[pos] :
              /\ (j - 1) * s.TOTAL_POSITIONS + pos < Len(s.clips)
              /\ s.position_clips[pos][j]
                     = s.clips[(j - 1) * s.TOTAL_POSITIONS + pos + 1]
    /\ \A pos \in DOMAIN s.position_clips, other \in DOMAIN s.position_clips :
          Len(s.position_clips[pos]) - Len(s.position_clips[other]) \in {-1, 0, 1}

\* C24: concatenate_position_clips, in generate_grid_screensaver.py and in
\* generate_grid_screensaver_v2.py, assigns clip k (0-based, in input order) to
\* grid position k mod TOTAL_POSITIONS: every clip is assigned to exactly one
\* position, the clips of a position keep their input order, and the clip
\* counts of any two positions differ by at most 1.
C24_RoundRobinClips ==
    /\ Concatenated(screensaver) => RoundRobin(screensaver)
    /\ Concatenated(screensaver_v2) => RoundRobin(screensaver_v2)

\* a 2x2 grid with six clips asked for, the extraction numbered 1 having
\* failed: position 0 gets two clips, the other positions one
C24_Witness ==
    /\ Concatenated(screensaver_v2)
    /\ screensaver_v2.pc = "concatenated"
    /\ screensaver_v2.TOTAL_POSITIONS = 4
    /\ screensaver_v2.clips = <<0, 2, 3, 4, 5>>
    /\ screensaver_v2.position_clips[0] = <<0, 5>>
    /\ screensaver_v2.position_clips[1] = <<2>>
    /\ screensaver_v2.position_clips[3] = <<4>>

(***************************************************************************)
(* extract_clips (generate_cabinet_grid.py lines 307-372; the loop is the   *)
(* same in generate_growing_grid.py lines 339-411 and                       *)
(* generate_grid_screensaver_v2.py lines 308-355)                           *)
(***************************************************************************)
\* num_clips ranges over 1..MaxClips
MaxClips == 3

\* the sources last up to MaxSlack seconds more than the shortest usable one
MaxSlack == 2

AVOID_EDGES == 10

UpToTheEnd(duration, clip_duration) == duration - clip_duration

\* max_start = duration - CLIP_DURATION - AVOID_EDGES (line 330)
max_start(duration, clip_duration) == duration - clip_duration - AVOID_EDGES

\* main, line 710: extract_clips is called with the video files found and
\* starts with clips = [] (line 312).  A file stands for what
\* get_video_duration returns for it (lines 209-224): <<>> for None, <<d>> for
\* a duration of d seconds.
CallExtractClips ==
    /\ extraction = None
    /\ \E cd \in {5, 10}, n \in 1..MaxClips :
          \E files \in SUBSET ({<<>>, <<5>>}
                               \cup {<<d>> : d \in (cd + 2 * AVOID_EDGES - 1)
                                                 ..(cd + 2 * AVOID_EDGES + MaxSlack)}) :
              /\ files # {}
              /\ extraction' = [pc |-> "loop", CLIP_DURATION |-> cd,
                                video_files |-> files, num_clips |-> n,
                                i |-> 0, clips |-> <<>>]
    /\ UNCHANGED <<globals, pc, layout, segment, frame, main,
                   growing, screensaver, screensaver_v2, static_grid>>

\* lines 322-370: one iteration of the loop.  random.choice picks a source,
\* random.uniform a start in [AVOID_EDGES, max_start], and ffmpeg cuts the clip
\* or fails.
ExtractClip ==
    /\ extraction # None
    /\ extraction.pc = "loop"
    /\ extraction.i < extraction.num_clips
    /\ \E duration \in extraction.video_files :
          IF \/ duration = <<>>
             \/ duration[1] < extraction.CLIP_DURATION + 2 * AVOID_EDGES
          THEN extraction' = [extraction EXCEPT !.i = @ + 1]
          ELSE \E start_time \in
                      AVOID_EDGES..max_start(duration[1], extraction.CLIP_DURATION),
                  cut \in BOOLEAN :
                  extraction' =
                      [extraction EXCEPT
                          !.i = @ + 1,
                          !.clips = IF cut
                                    THEN Append(@, [clip |-> extraction.i,
                                                    duration |-> duration,
                                                    start_time |-> start_time])
                                    ELSE @]
    /\ UNCHANGED <<globals, pc, layout, segment, frame, main,
                   growing, screensaver, screensaver_v2, static_grid>>

\* line 372: return clips
ReturnClips ==
    /\ extraction # None
    /\ extraction.pc = "loop"
    /\ extraction.i >= extraction.num_clips
    /\ extraction' = [extraction EXCEPT !.pc = "returned"]
    /\ UNCHANGED <<globals, pc, layout, segment, frame, main,
                   growing, screensaver, screensaver_v2, static_grid>>

\* a call of extract_clips
ExtractNext ==
    \/ CallExtractClips
    \/ ExtractClip
    \/ ReturnClips

ExtractSpec == Init /\ [][ExtractNext]_vars

\* C25: every clip extract_clips cuts avoids the first and last AVOID_EDGES
\* seconds of its source: the source has a readable duration of at least
\* CLIP_DURATION + 2*AVOID_EDGES, AVOID_EDGES <= start_time and
\* start_time + CLIP_DURATION <= duration - AVOID_EDGES; a source that is too
\* short or has no readable duration yields no clip, and at most num_clips
\* clips are returned.
C25_ClipsAvoidEdges ==
    extraction # None =>
        /\ Len(extraction.clips) <= extraction.num_clips
        /\ Len(extraction.clips) <= extraction.i
        /\ \A k \in DOMAIN extraction.clips :
              /\ extraction.clips[k].duration # <<>>
              /\ extraction.clips[k].duration \in extraction.video_files
              /\ extraction.clips[k].duration[1]
                     >= extraction.CLIP_DURATION + 2 * AVOID_EDGES
              /\ AVOID_EDGES <= extraction.clips[k].start_time
              /\ extraction.clips[k].start_time + extraction.CLIP_DURATION
                     <= extraction.clips[k].duration[1] - AVOID_EDGES

\* three clips of 10 s asked for from a 29 s and a 30 s source: the call has
\* returned one clip, cut from the 30 s source at 10 s
C25_Witness ==
    /\ extraction # None
    /\ extraction.pc = "returned"
    /\ extraction.CLIP_DURATION = 10
    /\ extraction.video_files = {<<29>>, <<30>>}
    /\ extraction.num_clips = 3
    /\ Len(extraction.clips) = 1
    /\ extraction.clips[1].duration = <<30>>
    /\ extraction.clips[1].start_time = 10

(***************************************************************************)
(* Further properties of create_grid_segment                                *)
(***************************************************************************)
\* the cells of the current grid that are not new (line 606)
Persisting ==
    {i \in 0..(segment.args.rows * segment.args.cols - 1) :
        ~IsNew(i, PrevNumVideos(segment.args.prev_rows, segment.args.prev_cols))}

\* C26: in create_grid_segment, for every current and previous shape with
\* rows, cols >= 1 (growing, equal or shrinking) and either slide direction,
\* the lookup of a persisting cell's previous position never fails: every
\* index i < rows*cols that is not new is a key of the previous layout's
\* positions, and no KeyError is raised.
C26_PrevLookupSucceeds ==
    Transition =>
        /\ segment.status # "KeyError"
        /\ \A i \in Persisting : i \in DOMAIN PrevPositions

\* a 2x2 grid shrinking to 1x1: cell 0 persists and slides from the position
\* it had in the 2x2 layout
C26_Witness ==
    /\ Animating
    /\ segment.args.rows = 1 /\ segment.args.cols = 1
    /\ segment.args.prev_rows = 2 /\ segment.args.prev_cols = 2
    /\ Persisting = {0}
    /\ Position(0, 0) = Exactly(PrevPositions[0])

\* the cells i and j, placed at their positions with the returned cell size,
\* share no pixel
Apart(i, j) ==
    \/ layout.positions[i][1] + layout.scaled_video_width <= layout.positions[j][1]
    \/ layout.positions[j][1] + layout.scaled_video_width <= layout.positions[i][1]
    \/ layout.positions[i][2] + layout.scaled_video_height <= layout.positions[j][2]
    \/ layout.positions[j][2] + layout.scaled_video_height <= layout.positions[i][2]

\* C27: for every valid input of calculate_grid_layout no two distinct cells
\* overlap: after the truncation of the positions to integers, horizontally
\* adjacent cells satisfy x(c+1) - x(c) >= cell width and vertically adjacent
\* cells satisfy y(r+1) - y(r) >= cell height.
C27_NoOverlap ==
    HasLayout =>
        /\ \A c \in 1..(layout.cols - 1) :
              ColX(c) - ColX(c - 1) >= layout.scaled_video_width
        /\ \A r \in 1..(layout.rows - 1) :
              RowY(r) - RowY(r - 1) >= layout.scaled_video_height
        /\ \A i \in Cells, j \in Cells : i # j => Apart(i, j)

\* a 3x3 grid without gaps: the rows touch, y(r+1) - y(r) is exactly the cell
\* height, and the columns are a cell width or more apart
C27_Witness ==
    /\ HasLayout
    /\ SPACING_MODE = "none"
    /\ layout.rows = 3 /\ layout.cols = 3
    /\ layout.scaled_video_height > 0
    /\ RowY(1) - RowY(0) = layout.scaled_video_height
    /\ RowY(2) - RowY(1) = layout.scaled_video_height
    /\ ColX(1) - ColX(0) >= layout.scaled_video_width

(***************************************************************************)
(* generate_static_grid.py: generate_grid                                   *)
(***************************************************************************)
\* the directory holds up to MaxSpare videos more than the grid has positions
MaxSpare == 1

\* generate_grid, line 206: get_user_config on the 1080p canvas with a grid of
\* rows x cols, rows, cols > 0 (lines 51-59), and SPACING >= 0 (lines 68-70)
StaticConfig ==
    /\ static_grid = None
    /\ \E g \in {<<1, 1>>, <<1, 2>>, <<2, 2>>, <<2, 3>>}, sp \in {0, 10} :
          static_grid' = [pc |-> "configured", GRID_ROWS |-> g[1],
                          GRID_COLS |-> g[2], SPACING |-> sp]
    /\ UNCHANGED <<globals, pc, layout, segment, frame, main,
                   growing, screensaver, screensaver_v2, extraction>>

\* lines 209-262: the videos found (the user continues with a partially filled
\* grid, line 246) and the probe of the first total_positions of them;
\* get_video_info returns None for the videos in failed.  The function returns
\* when there is no video (line 212) or no info at all (line 260).
AnalyzeVideos ==
    /\ static_grid # None
    /\ static_grid.pc = "configured"
    /\ \E n \in 0..(static_grid.GRID_ROWS * static_grid.GRID_COLS + MaxSpare) :
          \E failed \in SUBSET (0..(n - 1)) :
              /\ \A i \in failed : i < static_grid.GRID_ROWS * static_grid.GRID_COLS
              /\ static_grid' =
                     [videos |-> [k \in 1..n |-> k - 1],
                      video_info |->
                          {i \in 0..(n - 1) :
                              /\ i < static_grid.GRID_ROWS * static_grid.GRID_COLS
                              /\ i \notin failed}]
                     @@ [static_grid EXCEPT !.pc =
                            IF n = 0 \/ \A i \in 0..(n - 1) :
                                   \/ i >= static_grid.GRID_ROWS * static_grid.GRID_COLS
                                   \/ i \in failed
                            THEN "returned" ELSE "analyzed"]
    /\ UNCHANGED <<globals, pc, layout, segment, frame, main,
                   growing, screensaver, screensaver_v2, extraction>>

\* lines 268-332: the cell size, the scale/pad chain of every slot that has a
\* video with info, and the chain of overlays.  The chain of slot i reads
\* input len(video_inputs) - 1 and defines the label [v{i}] (lines 284-306);
\* overlay i reads the label [v{i}] for i in range(len(video_inputs)) and
\* places it at the position of slot i (lines 320-332).
BuildFilterGraph ==
    /\ static_grid # None
    /\ static_grid.pc = "analyzed"
    /\ LET cols == static_grid.GRID_COLS
           total_positions == static_grid.GRID_ROWS * static_grid.GRID_COLS
           cell_width == (1920 - static_grid.SPACING * (cols + 1)) \div cols
           cell_height == (1080 - static_grid.SPACING * (static_grid.GRID_ROWS + 1))
                              \div static_grid.GRID_ROWS
           slots == SelectSeq([k \in 1..total_positions |-> k - 1],
                              LAMBDA i : /\ i < Len(static_grid.videos)
                                         /\ static_grid.videos[i + 1]
                                                \in static_grid.video_info)
       IN  static_grid' =
               [video_inputs |-> [k \in DOMAIN slots |-> static_grid.videos[slots[k] + 1]],
                filter_parts |->
                    [k \in DOMAIN slots |->
                        [input |-> k - 1, slot |-> slots[k],
                         scale |-> <<cell_width, cell_height>>,
                         label |-> slots[k]]],
                overlays |->
                    [k \in DOMAIN slots |->
                        [label |-> k - 1,
                         row |-> (k - 1) \div cols, col |-> (k - 1) % cols,
                         x |-> static_grid.SPACING
                                   + ((k - 1) % cols) * (cell_width + static_grid.SPACING),
                         y |-> static_grid.SPACING
                                   + ((k - 1) \div cols)
                                         * (cell_height + static_grid.SPACING)]]]
               @@ [static_grid EXCEPT !.pc = "built"]
    /\ UNCHANGED <<globals, pc, layout, segment, frame, main,
                   growing, screensaver, screensaver_v2, extraction>>

\* generate_grid from the prompts to the filter graph handed to ffmpeg
StaticNext ==
    \/ StaticConfig
    \/ AnalyzeVideos
    \/ BuildFilterGraph

StaticSpec == Init /\ [][StaticNext]_vars

\* the filter graph has been built
Built == static_grid # None /\ static_grid.pc = "built"

\* the scale/pad chains that define the label l
Defining(l) ==
    {k \in DOMAIN static_grid.filter_parts : static_grid.filter_parts[k].label = l}

\* C28: in generate_static_grid.py, for any subset of the selected videos
\* whose metadata probe fails, the filter graph built is well formed: every
\* label [v{i}] an overlay consumes is defined by exactly one scale/pad chain,
\* every defined label is consumed by an overlay, and each video is overlaid
\* at the grid position (row, col) of the slot it was scaled for.
C28_FilterGraphWellFormed ==
    Built =>
        /\ \A j \in DOMAIN static_grid.overlays :
              Cardinality(Defining(static_grid.overlays[j].label)) = 1
        /\ \A k \in DOMAIN static_grid.filter_parts :
              \E j \in DOMAIN static_grid.overlays :
                  static_grid.overlays[j].label = static_grid.filter_parts[k].label
        /\ \A j \in DOMAIN static_grid.overlays :
              \A k \in Defining(static_grid.overlays[j].label) :
                  /\ static_grid.overlays[j].row
                         = static_grid.filter_parts[k].slot \div static_grid.GRID_COLS
                  /\ static_grid.overlays[j].col
                         = static_grid.filter_parts[k].slot % static_grid.GRID_COLS

====
